---- MODULE Spec2Model ----
(***************************************************************************)
(* A model of lol-scout: the reconciler scrape_player with its source      *)
(* adapters and thread pool (src/scraper.py), and the fetch layer _fetch.  *)
(*                                                                         *)
(* Spec       one call of scrape_player(game_name, tag_line): the main     *)
(*            thread and the pool workers interleave.                      *)
(* FetchSpec  one call of _fetch(url) against an arbitrary sequence of     *)
(*            responses.                                                   *)
(* ScanSpec   one call of _extract_json_object_at(text, start) on every     *)
(*            short text.                                                  *)
(* AdapterSpec  one call of scrape_masteries or scrape_champions on a      *)
(*            fetched page, of scrape_tier_from_multisearch, or of the     *)
(*            loop body of scrape_champions on one entry.                  *)
(* BanSpec    one call of get_ban_recommendations(opponent_team, num_bans) *)
(*            on a team of one or two players.                             *)
(* EngineSpec one call of champ_matches_role, identify_one_tricks,         *)
(*            get_pick_recommendations or get_ban_recommendations          *)
(*            (src/analysis.py), or two writers of the roster.             *)
(* StoreSpec  two writers of the roster (src/storage.py, src/app.py), each *)
(*            loading it, updating one player and saving it.               *)
(* JobSpec    two requests to refresh one team (src/app.py) and the        *)
(*            workers they start; JobFairSpec lets every thread run on.    *)
(* LockSpec   threads that call load() or save() of src/storage.py, the    *)
(*            data file there or not; LockFairSpec lets every thread run   *)
(*            on.                                                          *)
(* RosterSpec two handlers that create, rename, set as my team and delete  *)
(*            teams (src/app.py, src/storage.py).                          *)
(* VersionSpec  two threads that call get_ddragon_version (src/scraper.py) *)
(*            while the clock moves.                                       *)
(***************************************************************************)
EXTENDS Integers, Sequences, FiniteSets, TLC

(***************************************************************************)
(* Values                                                                  *)
(***************************************************************************)

\* Python's None where the field otherwise holds a string.
None == "<None>"

\* Python's None for stats["division"], which otherwise holds 1..4.
NoDivision == 0

\* The adapters that scrape_player hands to the pool, and the identity adapter.
Workers == {"roles", "history", "champs", "mastery"}

\* What a pool adapter does: return, raise, or run past the timeout that the
\* main thread gives future.result().
WorkerOutcomes == {"ok", "error", "timeout"}

\* What scrape_tier_from_multisearch does: return, raise ScrapeError (the only
\* error _fetch raises), or raise anything else.
TierOutcomes == {"ok", "scrape_error", "exception"}

\* User-supplied identities.
GameNames == {"faker"}
TagLines == {"NA1", "KR1"}

\* Results of scrape_tier_from_multisearch: no data found, the summoner found
\* with its canonical name and tag and a rank, the summoner found unranked.
TierResults ==
    { [tier |-> "UNRANKED", division |-> NoDivision, lp |-> 0,
       resolved_name |-> None, resolved_tag |-> None, puuid |-> None],
      [tier |-> "GOLD", division |-> 2, lp |-> 50,
       resolved_name |-> "Faker", resolved_tag |-> "KR1", puuid |-> "puuid-1"],
      [tier |-> "UNRANKED", division |-> NoDivision, lp |-> 0,
       resolved_name |-> "Faker", resolved_tag |-> "T1", puuid |-> None] }

\* Result of scrape_season_history for a player with two past seasons.
HistoryResult ==
    [previous_season_tier |-> "Gold II", peak_tier |-> "Platinum IV",
     season_history |-> <<"Season 2024", "Season 2025">>]

\* Result of scrape_masteries.
MasteryResult ==
    << [champion_id |-> 103, champion_name |-> "Ahri", level |-> 7, points |-> 250000],
       [champion_id |-> 222, champion_name |-> "Jinx", level |-> 5, points |-> 40000] >>

\* Results of scrape_champion_roles_ugg: {champion_id: role}; the empty map
\* when u.gg has no ranked games of the player.
RoleMaps == { <<>>, [c \in {103} |-> "Top"], [c \in {103, 777} |-> "Sup"] }

\* The decoded my_champion_stats array of the op.gg champions page: the
\* aggregate entry (id 0) and three champions.  win_rate is in hundredths
\* of a percent; image_key is the last path component of image_url without
\* ".png" ("" when there is no image_url).
ChampionsPage ==
    << [champion_id |-> 0, name |-> "", key |-> "", image_key |-> "",
        play |-> 34, win |-> 19, lose |-> 15, win_rate |-> 0],
       [champion_id |-> 103, name |-> "Ahri", key |-> "ahri", image_key |-> "Ahri",
        play |-> 10, win |-> 6, lose |-> 4, win_rate |-> 0],
       [champion_id |-> 222, name |-> "", key |-> "", image_key |-> "Jinx",
        play |-> 20, win |-> 11, lose |-> 9, win_rate |-> 5500],
       [champion_id |-> 777, name |-> "Mel", key |-> "mel", image_key |-> "",
        play |-> 4, win |-> 2, lose |-> 2, win_rate |-> 5000] >>

\* Season totals found in the header before my_champion_stats.
ChampionsHeader == [play |-> 34, win |-> 19, lose |-> 15]

\* get_champion_roles(): the Meraki table, or {} when its fetch failed and
\* nothing is cached.
MerakiTable ==
    [n \in {"Ahri", "Jinx"} |->
        IF n = "Ahri" THEN <<"MIDDLE", "TOP">> ELSE <<"BOTTOM">>]

StaticTables == { MerakiTable, <<>> }

ROLE_SHORT ==
    [r \in {"TOP", "JUNGLE", "MIDDLE", "BOTTOM", "SUPPORT"} |->
        CASE r = "TOP" -> "Top"
          [] r = "JUNGLE" -> "Jgl"
          [] r = "MIDDLE" -> "Mid"
          [] r = "BOTTOM" -> "Bot"
          [] r = "SUPPORT" -> "Sup"]

\* ThreadPoolExecutor(max_workers=4)
MaxWorkers == 4

(***************************************************************************)
(* State                                                                   *)
(***************************************************************************)
VARIABLES
    \* scrape_player: inputs and environment
    game_name, tag_line,    \* the arguments
    tier_outcome,           \* what scrape_tier_from_multisearch does
    tier_out,               \* what it returns when it returns
    outcome,                \* what each pool adapter does
    roles_out,              \* what scrape_champion_roles_ugg returns
    static_roles,           \* what get_champion_roles() returns
    \* scrape_player: locals
    pc,                     \* position of the main thread
    stats, errors,
    resolved_name, resolved_tag, puuid,
    champion_role_map,
    fut,                    \* the futures: state, call arguments, result
    timedout,               \* adapters whose result() raised TimeoutError
    \* _fetch: locals and what the call has done so far
    f_pc,                   \* "idle", "request", "sleep", "returned", "raised"
    f_attempt,              \* the loop variable attempt
    f_log,                  \* the responses requests.get has produced
    f_slept,                \* the delays time.sleep was called with
    f_delay,                \* the delay of the sleep in progress
    f_last_error,           \* last_error
    f_result,               \* what the call returned or raised
    \* _extract_json_object_at: arguments, locals and the result
    x_text, x_start,        \* the arguments: characters, 0-based position
    x_pc,                   \* "idle", "call", "scan", "done"
    x_i,                    \* the loop variable i (0-based)
    x_depth, x_in_string, x_escape,
    x_result,               \* what was returned, and the span json.loads got
    \* scrape_masteries and scrape_champions on a fetched page
    p_html,                 \* the page, a sequence of pieces of text
    p_key, p_array, p_at,   \* how the page was made: anchor, array, position
    p_pc,                   \* "idle", "fetched", "done"
    p_result,               \* what the adapter returned or that it raised
    \* scrape_tier_from_multisearch
    t_tag,                  \* the argument tag_line
    t_primary, t_fallback,  \* what the two searches give
    t_found,                \* what a page with the data array holds
    t_pc,                   \* "idle", "fetch", "fallback", "parse", ...
    t_log,                  \* the search terms fetched
    t_data,                 \* data_idx >= 0
    t_result,
    \* the loop body of scrape_champions
    e_entry,                \* the entry c
    e_pc,                   \* "idle", "entry", "appended"
    e_record,               \* the record built from it
    \* get_ban_recommendations
    b_team,                 \* the players of opponent_team
    b_num_bans,             \* the argument num_bans
    b_pc,                   \* "idle", "call", "done"
    b_scored,               \* results, sorted (line 144)
    b_result,               \* the list returned
    \* champ_matches_role
    r_str, r_role,          \* the arguments
    r_pc,                   \* "idle", "call", "done"
    r_result,               \* what it returned
    \* identify_one_tricks
    o_team,                 \* the players of the team
    o_pc,                   \* "idle", "call", "done"
    o_result,               \* the list returned
    \* get_pick_recommendations
    k_my_team, k_opp_team,  \* the players of the two teams
    k_pc,                   \* "idle", "call", "done"
    k_result,               \* what it returned or that it raised
    \* storage.py and its writers
    s_file,                 \* the roster in the data file
    w_player,               \* of each writer: the id of the player it updates
    w_kwargs,               \* the keyword arguments it hands update_player
    w_pc,                   \* "idle", "start", "loaded", "done"
    w_data,                 \* the roster it loaded
    \* app.py: the refresh of a team
    j_roster,               \* the ids of the players of the team in the file
    j_heap,                 \* the job dictionaries created so far
    j_ref,                  \* which of them _refresh_jobs[team_id] names, or 0
    j_req,                  \* of each request: where its handler stands
    j_snap,                 \* the players its handler loaded
    j_wpc,                  \* of the worker it started: where it stands
    j_wjob,                 \* which dictionary the worker bound to job
    j_left,                 \* the players whose future it has yet to get
    j_cur,                  \* the result it is recording
    j_tmp,                  \* the value of job["done"] it read
    \* storage.py: load, save and _lock
    l_lock,                 \* the thread that holds _lock, or 0
    l_exists,               \* whether the data file exists
    l_op,                   \* of each thread: the function it calls
    l_pc,                   \* where it stands in it
    l_ret,                  \* what load() returned to it
    \* app.py and storage.py: the teams and my team
    m_file,                 \* the teams and my_team_id in the data file
    m_data,                 \* of each handler: the copy it loaded
    m_pc,                   \* "idle", "loaded"
    m_last,                 \* the last request finished and whether it saved
    \* scraper.py: get_ddragon_version
    d_cache,                \* _ddragon_version_cache
    d_clock,                \* what time.time() returns
    d_ticks,                \* how often the clock has moved
    d_pc,                   \* of each thread: where it stands in the call
    d_now,                  \* its now
    d_seen,                 \* the version and fetched_at it read
    d_new,                  \* the version it fetched
    d_ret,                  \* what its last call returned
    d_fetched               \* the versions that fetches have stored

spVars == <<game_name, tag_line, tier_outcome, tier_out, outcome, roles_out,
            static_roles, pc, stats, errors, resolved_name, resolved_tag,
            puuid, champion_role_map, fut, timedout>>

fVars == <<f_pc, f_attempt, f_log, f_slept, f_delay, f_last_error, f_result>>

xVars == <<x_text, x_start, x_pc, x_i, x_depth, x_in_string, x_escape,
           x_result>>

pVars == <<p_html, p_key, p_array, p_at, p_pc, p_result>>

tVars == <<t_tag, t_primary, t_fallback, t_found, t_pc, t_log, t_data, t_result>>

eVars == <<e_entry, e_pc, e_record>>

bVars == <<b_team, b_num_bans, b_pc, b_scored, b_result>>

rVars == <<r_str, r_role, r_pc, r_result>>

oVars == <<o_team, o_pc, o_result>>

kVars == <<k_my_team, k_opp_team, k_pc, k_result>>

sVars == <<s_file, w_player, w_kwargs, w_pc, w_data>>

jVars == <<j_roster, j_heap, j_ref, j_req, j_snap, j_wpc, j_wjob, j_left,
           j_cur, j_tmp>>

lVars == <<l_lock, l_exists, l_op, l_pc, l_ret>>

mVars == <<m_file, m_data, m_pc, m_last>>

dVars == <<d_cache, d_clock, d_ticks, d_pc, d_now, d_seen, d_new, d_ret,
           d_fetched>>

\* The variables of app.py, of the lock of storage.py and of the cache of
\* get_ddragon_version.
aVars == <<jVars, lVars, mVars, dVars>>

\* The variables of the functions of analysis.py and storage.py, but for
\* get_ban_recommendations, and those of app.py.
gVars == <<rVars, oVars, kVars, sVars, aVars>>

pureVars == <<xVars, pVars, tVars, eVars, bVars, gVars>>

vars == <<spVars, fVars, pureVars>>

(***************************************************************************)
(* Pure helpers                                                            *)
(***************************************************************************)

\* sep.join(seq)
RECURSIVE Join(_, _)
Join(seq, sep) ==
    IF seq = <<>> THEN ""
    ELSE IF Len(seq) = 1 THEN seq[1]
    ELSE seq[1] \o sep \o Join(Tail(seq), sep)

\* d.get(k) or default, for a dict modelled as a function
Get(d, k, default) == IF k \in DOMAIN d THEN d[k] ELSE default

\* round(wins / games * 100, 1), in tenths of a percent (ties to even, which
\* is what the float computation gives for every games below 80).
Round1 (wins, games) ==
    LET q == (1000 * wins) \div games
        r == (1000 * wins) % games
    IN  IF 2 * r > games THEN q + 1
        ELSE IF 2 * r < games THEN q
        ELSE IF q % 2 = 0 THEN q ELSE q + 1

\* The first truthy of a, b, c (Python's a or b or c) for strings.
OrStr(a, b, c) == IF a # "" THEN a ELSE IF b # "" THEN b ELSE c

\* scrape_champions, lines 473-481: key and display name of one entry.  The
\* names of the model never need the f"Champion {id}" fallback.
ChampKey(c) == IF c.key = "" /\ c.image_key # "" THEN c.image_key ELSE c.key

DisplayName(c) == OrStr(c.name, ChampKey(c), "Champion")

\* scrape_champions, lines 487-490: the role from the static table.
StaticRole(c, static) ==
    LET byName == Get(static, DisplayName(c), <<>>)
        byKey == Get(static, ChampKey(c), <<>>)
        positions == IF byName # <<>> THEN byName ELSE byKey
    IN  Join([i \in 1..Len(positions) |->
                Get(ROLE_SHORT, positions[i], positions[i])], "/")

\* ChampionRole without the static fallback.
ChampionRoleNoFallback(c, role_map, static) ==
    IF c.champion_id \in DOMAIN role_map THEN role_map[c.champion_id] ELSE ""

\* scrape_champions, lines 482-490: the role of one entry.
ChampionRole(c, role_map, static) ==
    IF DOMAIN role_map # {} /\ c.champion_id \in DOMAIN role_map
    THEN role_map[c.champion_id]
    ELSE StaticRole(c, static)

\* round(float(winrate), 1) of a source rate given in hundredths of a
\* percent, in tenths; the rates of the model are no ties (a tie goes by the
\* binary value of the float).
RoundTenth(h) == (h + 5) \div 10

\* ChampionRecord with the source's rate always taken.
ChampionRecordNoRecompute(c, role_map, static) ==
    [champion_id |-> c.champion_id,
     champion_name |-> DisplayName(c),
     champion_key |-> OrStr(ChampKey(c), c.name, ""),
     games |-> c.play,
     wins |-> c.win,
     losses |-> c.lose,
     winrate |-> RoundTenth(Get(c, "win_rate", 0)),
     role |-> ChampionRole(c, role_map, static)]

\* scrape_champions, lines 456-505: the record built from one entry.
ChampionRecord(c, role_map, static) ==
    [champion_id |-> c.champion_id,
     champion_name |-> DisplayName(c),
     champion_key |-> OrStr(ChampKey(c), c.name, ""),
     games |-> c.play,
     wins |-> c.win,
     losses |-> c.lose,
     winrate |-> IF Get(c, "win_rate", 0) = 0 /\ c.play > 0
                 THEN Round1(c.win, c.play)
                 ELSE RoundTenth(Get(c, "win_rate", 0)),
     role |-> ChampionRole(c, role_map, static)]

\* list.sort(key=lambda x: -x["games"]): stable, most games first.
RECURSIVE InsertByGames(_, _)
InsertByGames(sorted, x) ==
    IF sorted = <<>> THEN <<x>>
    ELSE IF Head(sorted).games >= x.games
         THEN <<Head(sorted)>> \o InsertByGames(Tail(sorted), x)
         ELSE <<x>> \o sorted

RECURSIVE SortByGames(_)
SortByGames(s) ==
    IF s = <<>> THEN <<>>
    ELSE InsertByGames(SortByGames(SubSeq(s, 1, Len(s) - 1)), s[Len(s)])

\* scrape_champions, lines 447-505: the records of the entries that are kept.
RECURSIVE ChampionRecords(_, _, _)
ChampionRecords(page, role_map, static) ==
    IF page = <<>> THEN <<>>
    ELSE LET rest == ChampionRecords(Tail(page), role_map, static)
         IN  IF "play" \notin DOMAIN Head(page) \/ Head(page).champion_id = 0
             THEN rest
             ELSE <<ChampionRecord(Head(page), role_map, static)>> \o rest

\* ScrapeChampions without the sort of line 507.
ScrapeChampionsUnsorted(header, page, role_map, static) ==
    [season_games |-> header.play,
     season_wins |-> header.win,
     season_losses |-> header.lose,
     season_winrate |-> IF header.play > 0 THEN Round1(header.win, header.play) ELSE 0,
     champions |-> ChampionRecords(page, role_map, static)]

\* scrape_champions(game_name, tag_line, champion_role_map) on a page that
\* holds the season header and the my_champion_stats array.
ScrapeChampions(header, page, role_map, static) ==
    [season_games |-> header.play,
     season_wins |-> header.win,
     season_losses |-> header.lose,
     season_winrate |-> IF header.play > 0 THEN Round1(header.win, header.play) ELSE 0,
     champions |-> SortByGames(ChampionRecords(page, role_map, static))]

(***************************************************************************)
(* scrape_player                                                           *)
(***************************************************************************)

\* The snapshot as constructed at lines 542-557.  last_updated (the wall
\* clock) is left out; has_season_history tells whether the key
\* "season_history" was added (line 611).
DefaultStats ==
    [tier |-> "UNRANKED", division |-> NoDivision, lp |-> 0,
     previous_season_tier |-> None, peak_tier |-> None,
     season_games |-> 0, season_wins |-> 0, season_losses |-> 0,
     season_winrate |-> 0, champions |-> <<>>, masteries |-> <<>>,
     has_season_history |-> FALSE, season_history |-> <<>>,
     opgg_url |-> None, scrape_error |-> None]

\* The tier result the model uses when the identity adapter does not return.
NoTierResult ==
    [tier |-> "UNRANKED", division |-> NoDivision, lp |-> 0,
     resolved_name |-> None, resolved_tag |-> None, puuid |-> None]

\* str(e) of the exception an adapter raises: _fetch's ScrapeError when every
\* attempt was rate-limited, or the 403 one.
BlockedText == "Blocked by Cloudflare/op.gg (403)"
ExhaustedText == "Failed after 3 attempts: None"

\* A future that was not submitted yet.
NoFuture ==
    [state |-> "none", name |-> None, tag |-> None, role_map |-> <<>>,
     result |-> "none"]

\* Resolve that keeps what the user supplied.
ResolveIgnored(found, supplied) == supplied

\* Lines 572-575: the resolved name (tag) when the adapter found one, else
\* the one the user supplied.
Resolve(found, supplied) == IF found # None THEN found ELSE supplied

\* RecordError that keeps the latest error only.
RecordErrorOverwrites(errs, label, text) == <<label \o ": " \o text>>

\* Lines 577, 613, 623, 628: errors.append(f"<label>: {e}")
RecordError(errs, label, text) == Append(errs, label \o ": " \o text)

\* Line 631: "; ".join(errors)
JoinErrors(errs) == Join(errs, "; ")

\* Lines 569-571: the fields taken from the identity adapter.
MergeTier(s, t) ==
    [s EXCEPT !.tier = t.tier, !.division = t.division, !.lp = t.lp]

\* MergeHistory that stores the previous season's tier as the peak tier.
MergeHistoryWrongKey(s, h) ==
    [s EXCEPT !.previous_season_tier = h.previous_season_tier,
              !.peak_tier = h.previous_season_tier,
              !.has_season_history = TRUE,
              !.season_history = h.season_history]

\* Lines 609-611.
MergeHistory(s, h) ==
    [s EXCEPT !.previous_season_tier = h.previous_season_tier,
              !.peak_tier = h.peak_tier,
              !.has_season_history = TRUE,
              !.season_history = h.season_history]

\* Lines 617-621.
MergeChampions(s, c) ==
    [s EXCEPT !.season_games = c.season_games,
              !.season_wins = c.season_wins,
              !.season_losses = c.season_losses,
              !.season_winrate = c.season_winrate,
              !.champions = c.champions]

\* MergeMasteries that rebuilds the collections and so drops the champions.
MergeMasteriesClobbers(s, m) == [s EXCEPT !.masteries = m, !.champions = <<>>]

\* Line 626.
MergeMasteries(s, m) == [s EXCEPT !.masteries = m]

\* Line 581; the names of the model hold only characters quote() keeps.
OpggUrl(name, tag) == "https://op.gg/lol/summoners/na/" \o name \o "-" \o tag

\* What the adapter behind a future returns.
ChampionsValue ==
    ScrapeChampions(ChampionsHeader, ChampionsPage, fut["champs"].role_map,
                    static_roles)

\* What _extract_json_object_at has returned before it returns.
NoSpan == [value |-> None, span |-> <<>>]

\* No call of _extract_json_object_at is in progress.
ScanIdle ==
    /\ x_text = <<>>
    /\ x_start = 0
    /\ x_pc = "idle"
    /\ x_i = 0
    /\ x_depth = 0
    /\ x_in_string = FALSE
    /\ x_escape = FALSE
    /\ x_result = NoSpan

\* What an adapter has produced before it ends.
NoPageResult == [adapter |-> "", kind |-> "none"]

\* No page is being extracted from.
PageIdle ==
    /\ p_html = <<>>
    /\ p_key = ""
    /\ p_array = <<>>
    /\ p_at = 0
    /\ p_pc = "idle"
    /\ p_result = NoPageResult

\* No call of scrape_tier_from_multisearch is in progress.
TierIdle ==
    /\ t_tag = ""
    /\ t_primary = "nodata"
    /\ t_fallback = "nodata"
    /\ t_found = NoTierResult
    /\ t_pc = "idle"
    /\ t_log = <<>>
    /\ t_data = FALSE
    /\ t_result = NoTierResult

\* What the loop body has built before it runs.
NoRecord == [champion_id |-> 0]

\* No entry is being worked on.
EntryIdle ==
    /\ e_entry = NoRecord
    /\ e_pc = "idle"
    /\ e_record = NoRecord

\* get_ban_recommendations is not being called.
BanIdle ==
    /\ b_team = <<>>
    /\ b_num_bans = 0
    /\ b_pc = "idle"
    /\ b_scored = <<>>
    /\ b_result = <<>>

\* champ_matches_role is not being called.
RoleIdle ==
    /\ r_str = <<>>
    /\ r_role = ""
    /\ r_pc = "idle"
    /\ r_result = FALSE

\* identify_one_tricks is not being called.
TricksIdle ==
    /\ o_team = <<>>
    /\ o_pc = "idle"
    /\ o_result = <<>>

\* get_pick_recommendations is not being called.
PicksIdle ==
    /\ k_my_team = <<>>
    /\ k_opp_team = <<>>
    /\ k_pc = "idle"
    /\ k_result = [kind |-> "none", error |-> None, picks |-> <<>>]

\* The threads that write the roster: a request handler (api_refresh_player,
\* api_update_player) or the worker of a team refresh.
Writers == {1, 2}

\* No writer of the roster is running.
StoreIdle ==
    /\ s_file = <<>>
    /\ w_player = [w \in Writers |-> None]
    /\ w_kwargs = [w \in Writers |-> <<>>]
    /\ w_pc = [w \in Writers |-> "idle"]
    /\ w_data = [w \in Writers |-> <<>>]

\* The threads of the server that handle the requests to refresh one team.
Handlers == {1, 2}

\* The ids of the players a team may have.
JobPlayers == {"p1", "p2"}

\* No result is being recorded.
NoEntry == [player |-> None, success |-> FALSE]

\* No request to refresh the team is being handled.
JobIdle ==
    /\ j_roster = {}
    /\ j_heap = <<>>
    /\ j_ref = 0
    /\ j_req = [h \in Handlers |-> "idle"]
    /\ j_snap = [h \in Handlers |-> {}]
    /\ j_wpc = [h \in Handlers |-> "none"]
    /\ j_wjob = [h \in Handlers |-> 0]
    /\ j_left = [h \in Handlers |-> {}]
    /\ j_cur = [h \in Handlers |-> NoEntry]
    /\ j_tmp = [h \in Handlers |-> 0]

\* The threads that call load() and save().
Callers == {1, 2, 3}

\* No thread is in load() or save().
LockIdle ==
    /\ l_lock = 0
    /\ l_exists = FALSE
    /\ l_op = [c \in Callers |-> None]
    /\ l_pc = [c \in Callers |-> "idle"]
    /\ l_ret = [c \in Callers |-> None]

\* The ids generate_id may draw, the names a request may carry, and the
\* number of teams up to which teams are created.
TeamIds == {"t1", "t2"}
TeamNames == {"", "A"}
MaxTeams == 2

\* The roster of default_tournament, and no request.
NoRoster == [teams |-> <<>>, my_team_id |-> None]
NoRequest == [op |-> None, id |-> None, saved |-> FALSE]

\* No handler works on the teams.
RosterIdle ==
    /\ m_file = NoRoster
    /\ m_data = [h \in Handlers |-> NoRoster]
    /\ m_pc = [h \in Handlers |-> "off"]
    /\ m_last = NoRequest

\* The seconds a cached version is good for, the versions a fetch may
\* return, the built-in version, and how often the clock moves.
TTL == 86400
Versions == {"15.1.1", "15.2.1"}
DefaultVersion == "14.24.1"
MaxTicks == 3

\* No call has returned.
NoReturn == [value |-> None, request |-> FALSE, failed |-> FALSE]

\* No thread calls get_ddragon_version.
VersionIdle ==
    /\ d_cache = [version |-> None, fetched_at |-> 0]
    /\ d_clock = 0
    /\ d_ticks = MaxTicks
    /\ d_pc = [c \in Handlers |-> "off"]
    /\ d_now = [c \in Handlers |-> 0]
    /\ d_seen = [c \in Handlers |-> [version |-> None, fetched_at |-> 0]]
    /\ d_new = [c \in Handlers |-> None]
    /\ d_ret = [c \in Handlers |-> NoReturn]
    /\ d_fetched = {}

AppIdle == JobIdle /\ LockIdle /\ RosterIdle /\ VersionIdle

\* Nothing of scraper.py, analysis.py and storage.py but scrape_player and
\* _fetch is in progress.
LibIdle ==
    /\ ScanIdle /\ PageIdle /\ TierIdle /\ EntryIdle /\ BanIdle
    /\ RoleIdle /\ TricksIdle /\ PicksIdle /\ StoreIdle

EngineIdle == RoleIdle /\ TricksIdle /\ PicksIdle /\ StoreIdle /\ AppIdle

PureIdle ==
    ScanIdle /\ PageIdle /\ TierIdle /\ EntryIdle /\ BanIdle /\ EngineIdle

\* No call of _fetch is in progress.
NoResult == [kind |-> "none", from |-> 0, error |-> None]

FetchIdle ==
    /\ f_pc = "idle"
    /\ f_attempt = 0
    /\ f_log = <<>>
    /\ f_slept = <<>>
    /\ f_delay = 0
    /\ f_last_error = None
    /\ f_result = NoResult

Init ==
    /\ game_name \in GameNames
    /\ tag_line \in TagLines
    /\ tier_outcome \in TierOutcomes
    /\ tier_out \in TierResults
    /\ tier_outcome # "ok" => tier_out = NoTierResult
    /\ outcome \in [Workers -> WorkerOutcomes]
    /\ roles_out \in RoleMaps
    /\ static_roles \in StaticTables
    /\ pc = "tier"
    /\ stats = DefaultStats
    /\ errors = <<>>
    /\ resolved_name = game_name
    /\ resolved_tag = tag_line
    /\ puuid = None
    /\ champion_role_map = <<>>
    /\ fut = [a \in Workers |-> NoFuture]
    /\ timedout = {}
    /\ FetchIdle
    /\ PureIdle

Inputs == <<game_name, tag_line, tier_outcome, tier_out, outcome, roles_out,
            static_roles>>

\* Lines 566-577: identity resolution, called on the main thread.
TierStep ==
    /\ pc = "tier"
    /\ CASE tier_outcome = "ok" ->
              /\ stats' = MergeTier(stats, tier_out)
              /\ resolved_name' = Resolve(tier_out.resolved_name, resolved_name)
              /\ resolved_tag' = Resolve(tier_out.resolved_tag, resolved_tag)
              /\ puuid' = tier_out.puuid
              /\ pc' = "url"
              /\ UNCHANGED errors
         [] tier_outcome = "scrape_error" ->
              /\ errors' = RecordError(errors, "Tier fetch failed", BlockedText)
              /\ pc' = "url"
              /\ UNCHANGED <<stats, resolved_name, resolved_tag, puuid>>
         [] tier_outcome = "exception" ->
              \* not a ScrapeError: the except clause does not match
              /\ pc' = "raised"
              /\ UNCHANGED <<stats, errors, resolved_name, resolved_tag, puuid>>
    /\ UNCHANGED <<fVars, pureVars, Inputs, champion_role_map, fut, timedout>>

\* Lines 579-586: the profile URL; trigger_opgg_renewal returns a bool that is
\* dropped and swallows its own exceptions.
UrlStep ==
    /\ pc = "url"
    /\ stats' = [stats EXCEPT !.opgg_url = OpggUrl(resolved_name, resolved_tag)]
    /\ pc' = "submit_roles"
    /\ UNCHANGED <<fVars, pureVars, Inputs, errors, resolved_name, resolved_tag, puuid,
                   champion_role_map, fut, timedout>>

\* pool.submit(adapter, resolved_name, resolved_tag[, champion_role_map])
Submit(a, next) ==
    /\ fut' = [fut EXCEPT ![a] = [state |-> "queued", name |-> resolved_name,
                                  tag |-> resolved_tag,
                                  role_map |-> champion_role_map,
                                  result |-> "none"]]
    /\ pc' = next
    /\ UNCHANGED <<fVars, pureVars, Inputs, stats, errors, resolved_name, resolved_tag, puuid,
                   champion_role_map, timedout>>

\* Line 591.
SubmitRoles == pc = "submit_roles" /\ Submit("roles", "submit_history")

\* Line 592.
SubmitHistory == pc = "submit_history" /\ Submit("history", "submit_mastery")

\* Line 593 followed by lines 603-605: all four calls are submitted before
\* the wait for role inference.
SubmitMasteryThenChamps == pc = "submit_mastery" /\ Submit("mastery", "submit_champs")

\* Line 593.
SubmitMastery == pc = "submit_mastery" /\ Submit("mastery", "wait_roles")

\* Lines 603-605.
SubmitChamps == pc = "submit_champs" /\ Submit("champs", "wait_history")

\* A pool thread picks the call up.
WorkerStart(a) ==
    /\ fut[a].state = "queued"
    /\ Cardinality({b \in Workers : fut[b].state = "running"}) < MaxWorkers
    /\ fut' = [fut EXCEPT ![a].state = "running"]
    /\ UNCHANGED <<fVars, pureVars, Inputs, pc, stats, errors, resolved_name, resolved_tag,
                   puuid, champion_role_map, timedout>>

\* The adapter returns or raises; one that runs past its timeout does so only
\* after result() has given up on it.
WorkerFinish(a) ==
    /\ fut[a].state = "running"
    /\ outcome[a] = "timeout" => a \in timedout
    /\ fut' = [fut EXCEPT ![a].state = "finished",
                          ![a].result = IF outcome[a] = "error"
                                        THEN "exception" ELSE "value"]
    /\ UNCHANGED <<fVars, pureVars, Inputs, pc, stats, errors, resolved_name, resolved_tag,
                   puuid, champion_role_map, timedout>>

\* future.result(timeout=...): "value", "exception", "timeout", or "pending"
\* while the main thread is still blocked in it.
ResultKind(a) ==
    IF outcome[a] = "timeout" THEN "timeout"
    ELSE IF fut[a].state = "finished" THEN fut[a].result
    ELSE "pending"

\* str(e) of what result() raised; TimeoutError() has an empty text.
ErrorText(a) == IF ResultKind(a) = "timeout" THEN "" ELSE ExhaustedText

TimedOutNow(a) == IF ResultKind(a) = "timeout" THEN timedout \cup {a} ELSE timedout

\* Lines 595-600: the role map, {} when result() raised.
WaitRoles ==
    /\ pc = "wait_roles"
    /\ ResultKind("roles") # "pending"
    /\ champion_role_map' = IF ResultKind("roles") = "value" THEN roles_out ELSE <<>>
    /\ timedout' = TimedOutNow("roles")
    /\ pc' = "submit_champs"
    /\ UNCHANGED <<fVars, pureVars, Inputs, stats, errors, resolved_name, resolved_tag, puuid, fut>>

\* Lines 607-613.
WaitHistory ==
    /\ pc = "wait_history"
    /\ ResultKind("history") # "pending"
    /\ IF ResultKind("history") = "value"
       THEN stats' = MergeHistory(stats, HistoryResult) /\ UNCHANGED errors
       ELSE /\ errors' = RecordError(errors, "Season history failed", ErrorText("history"))
            /\ UNCHANGED stats
    /\ timedout' = TimedOutNow("history")
    /\ pc' = "wait_champs"
    /\ UNCHANGED <<fVars, pureVars, Inputs, resolved_name, resolved_tag, puuid,
                   champion_role_map, fut>>

\* Lines 615-623.
WaitChamps ==
    /\ pc = "wait_champs"
    /\ ResultKind("champs") # "pending"
    /\ IF ResultKind("champs") = "value"
       THEN stats' = MergeChampions(stats, ChampionsValue) /\ UNCHANGED errors
       ELSE /\ errors' = RecordError(errors, "Champions fetch failed", ErrorText("champs"))
            /\ UNCHANGED stats
    /\ timedout' = TimedOutNow("champs")
    /\ pc' = "wait_mastery"
    /\ UNCHANGED <<fVars, pureVars, Inputs, resolved_name, resolved_tag, puuid,
                   champion_role_map, fut>>

\* Lines 625-628.
WaitMastery ==
    /\ pc = "wait_mastery"
    /\ ResultKind("mastery") # "pending"
    /\ IF ResultKind("mastery") = "value"
       THEN stats' = MergeMasteries(stats, MasteryResult) /\ UNCHANGED errors
       ELSE /\ errors' = RecordError(errors, "Masteries failed", ErrorText("mastery"))
            /\ UNCHANGED stats
    /\ timedout' = TimedOutNow("mastery")
    /\ pc' = "shutdown"
    /\ UNCHANGED <<fVars, pureVars, Inputs, resolved_name, resolved_tag, puuid,
                   champion_role_map, fut>>

\* PoolShutdown that, after the wait, takes the masteries of a call that has
\* finished by then, although result() had timed out on it.
PoolShutdownTakesLate ==
    /\ pc = "shutdown"
    /\ \A a \in Workers : fut[a].state \in {"none", "finished"}
    /\ stats' = IF fut["mastery"].result = "value"
                THEN MergeMasteries(stats, MasteryResult) ELSE stats
    /\ pc' = "return"
    /\ UNCHANGED <<fVars, pureVars, Inputs, errors, resolved_name, resolved_tag, puuid,
                   champion_role_map, fut, timedout>>

\* The end of the with block: shutdown(wait=True) returns once every
\* submitted call has finished.
PoolShutdown ==
    /\ pc = "shutdown"
    /\ \A a \in Workers : fut[a].state \in {"none", "finished"}
    /\ pc' = "return"
    /\ UNCHANGED <<fVars, pureVars, Inputs, stats, errors, resolved_name, resolved_tag, puuid,
                   champion_role_map, fut, timedout>>

\* ReturnStats that never attaches the diagnostic.
ReturnStatsNoDiagnostic ==
    /\ pc = "return"
    /\ pc' = "done"
    /\ UNCHANGED <<fVars, pureVars, Inputs, stats, errors, resolved_name, resolved_tag, puuid,
                   champion_role_map, fut, timedout>>

\* Lines 630-633.
ReturnStats ==
    /\ pc = "return"
    /\ stats' = IF errors # <<>>
                THEN [stats EXCEPT !.scrape_error = JoinErrors(errors)]
                ELSE stats
    /\ pc' = "done"
    /\ UNCHANGED <<fVars, pureVars, Inputs, errors, resolved_name, resolved_tag, puuid,
                   champion_role_map, fut, timedout>>

Next ==
    \/ TierStep
    \/ UrlStep
    \/ SubmitRoles
    \/ SubmitHistory
    \/ SubmitMastery
    \/ WaitRoles
    \/ SubmitChamps
    \/ WaitHistory
    \/ WaitChamps
    \/ WaitMastery
    \/ PoolShutdown
    \/ ReturnStats
    \/ \E a \in Workers : WorkerStart(a)
    \/ \E a \in Workers : WorkerFinish(a)

Spec == Init /\ [][Next]_vars

(***************************************************************************)
(* _fetch                                                                  *)
(***************************************************************************)

\* A loop that runs once more than MAX_RETRIES says.
MAX_RETRIES_OffByOne == 3 + 1

\* Line 21.
MAX_RETRIES == 3

\* Line 22.
RETRY_DELAYS == <<1, 2, 4>>

Min(a, b) == IF a < b THEN a ELSE b

\* What one requests.get can produce: a status (2xx; 3xx, which
\* raise_for_status lets through; 403; 429; another 4xx or 5xx) or a
\* transport-level RequestException.
Responses == {"2xx", "3xx", "403", "429", "4xx5xx", "transport"}

\* No call of scrape_player is in progress.
ScrapeIdle ==
    /\ game_name = "faker"
    /\ tag_line = "NA1"
    /\ tier_outcome = "ok"
    /\ tier_out = NoTierResult
    /\ outcome = [a \in Workers |-> "ok"]
    /\ roles_out = <<>>
    /\ static_roles = <<>>
    /\ pc = "idle"
    /\ stats = DefaultStats
    /\ errors = <<>>
    /\ resolved_name = "faker"
    /\ resolved_tag = "NA1"
    /\ puuid = None
    /\ champion_role_map = <<>>
    /\ fut = [a \in Workers |-> NoFuture]
    /\ timedout = {}

\* Line 35: _fetch(url) has been called.
FetchInit ==
    /\ ScrapeIdle
    /\ PureIdle
    /\ f_pc = "request"
    /\ f_attempt = 0
    /\ f_log = <<>>
    /\ f_slept = <<>>
    /\ f_delay = 0
    /\ f_last_error = None
    /\ f_result = NoResult

\* Line 38: one more request, in the loop body for attempt < MAX_RETRIES.
Request(r) ==
    /\ f_pc = "request"
    /\ f_attempt < MAX_RETRIES
    /\ f_log' = Append(f_log, r)

\* Lines 44-45: a status that raise_for_status accepts; the body is returned.
FetchOk ==
    /\ \E r \in {"2xx", "3xx"} : Request(r)
    /\ f_pc' = "returned"
    /\ f_result' = [kind |-> "body", from |-> Len(f_log) + 1, error |-> None]
    /\ UNCHANGED <<spVars, pureVars, f_attempt, f_slept, f_delay, f_last_error>>

\* FetchRateLimited without the sleep: the next attempt follows at once.
FetchRateLimitedNoSleep ==
    /\ Request("429")
    /\ f_pc' = "request"
    /\ f_attempt' = f_attempt + 1
    /\ UNCHANGED <<spVars, pureVars, f_slept, f_delay, f_last_error, f_result>>

\* Lines 39-41: 429; sleep, then the next attempt.
FetchRateLimited ==
    /\ Request("429")
    /\ f_pc' = "sleep"
    /\ f_delay' = RETRY_DELAYS[Min(f_attempt, Len(RETRY_DELAYS) - 1) + 1]
    /\ UNCHANGED <<spVars, pureVars, f_attempt, f_slept, f_last_error, f_result>>

\* FetchBlocked with the ScrapeError caught like a RequestException.
FetchBlockedCaught ==
    /\ Request("403")
    /\ f_last_error' = "403"
    /\ IF f_attempt < MAX_RETRIES - 1
       THEN /\ f_pc' = "sleep"
            /\ f_delay' = RETRY_DELAYS[f_attempt + 1]
            /\ UNCHANGED f_attempt
       ELSE /\ f_pc' = "request"
            /\ f_attempt' = f_attempt + 1
            /\ UNCHANGED f_delay
    /\ UNCHANGED <<spVars, pureVars, f_slept, f_result>>

\* Lines 42-43: 403; the ScrapeError is no RequestException and leaves the
\* function.
FetchBlocked ==
    /\ Request("403")
    /\ f_pc' = "raised"
    /\ f_result' = [kind |-> "blocked", from |-> Len(f_log) + 1, error |-> None]
    /\ UNCHANGED <<spVars, pureVars, f_attempt, f_slept, f_delay, f_last_error>>

\* FetchFailedAttempt without the retry: the first failure ends the call.
FetchFailedAttemptNoRetry ==
    /\ \E r \in {"4xx5xx", "transport"} : Request(r) /\ f_last_error' = r
    /\ f_pc' = "raised"
    /\ f_result' = [kind |-> "failed", from |-> 0, error |-> f_last_error']
    /\ UNCHANGED <<spVars, pureVars, f_attempt, f_slept, f_delay>>

\* Lines 44, 46-49: raise_for_status raised, or requests.get did; sleep unless
\* this was the last attempt.
FetchFailedAttempt ==
    /\ \E r \in {"4xx5xx", "transport"} : Request(r) /\ f_last_error' = r
    /\ IF f_attempt < MAX_RETRIES - 1
       THEN /\ f_pc' = "sleep"
            /\ f_delay' = RETRY_DELAYS[f_attempt + 1]
            /\ UNCHANGED f_attempt
       ELSE /\ f_pc' = "request"
            /\ f_attempt' = f_attempt + 1
            /\ UNCHANGED f_delay
    /\ UNCHANGED <<spVars, pureVars, f_slept, f_result>>

\* time.sleep returns; the loop goes on to the next attempt.
FetchSleep ==
    /\ f_pc = "sleep"
    /\ f_slept' = Append(f_slept, f_delay)
    /\ f_attempt' = f_attempt + 1
    /\ f_pc' = "request"
    /\ UNCHANGED <<spVars, pureVars, f_log, f_delay, f_last_error, f_result>>

\* Line 50: the loop is over.
FetchExhausted ==
    /\ f_pc = "request"
    /\ f_attempt >= MAX_RETRIES
    /\ f_pc' = "raised"
    /\ f_result' = [kind |-> "failed", from |-> 0, error |-> f_last_error]
    /\ UNCHANGED <<spVars, pureVars, f_attempt, f_log, f_slept, f_delay, f_last_error>>

FetchNext ==
    \/ FetchOk
    \/ FetchRateLimited
    \/ FetchBlocked
    \/ FetchFailedAttempt
    \/ FetchSleep
    \/ FetchExhausted

\* _fetch is sequential code whose steps (a request with a timeout, a sleep)
\* all end, so it keeps taking steps while it has one.
FetchSpec == FetchInit /\ [][FetchNext]_vars /\ WF_vars(FetchNext)

(***************************************************************************)
(* _extract_json_object_at                                                 *)
(***************************************************************************)

\* The characters of a text: the two braces, the double quote, the
\* backslash, and a space for every character the scan does not look at.
Chars == {"{", "}", "\"", "\\", " "}

\* Longest text, and the positions the scan is started at.
MaxText == 6
Starts == -1..1

Texts == UNION { [1..n -> Chars] : n \in 0..MaxText }

\* text[i] of Python, i counted from 0.
At(text, i) == text[i + 1]

\* text[a : b] of Python.
Slice(text, a, b) == SubSeq(text, a + 1, b)

\* json.loads of a span of these characters: a span that opens with a brace
\* is a JSON document only as an empty object, with white space at most
\* between its braces; everything else raises JSONDecodeError.
JsonLoads(span) ==
    IF /\ Len(span) >= 2
       /\ span[1] = "{"
       /\ span[Len(span)] = "}"
       /\ \A k \in 2..(Len(span) - 1) : span[k] = " "
    THEN "object"
    ELSE None

\* Line 53: _extract_json_object_at(text, start) has been called.
ScanInit ==
    /\ ScrapeIdle
    /\ FetchIdle
    /\ PageIdle
    /\ TierIdle
    /\ EntryIdle
    /\ BanIdle
    /\ EngineIdle
    /\ x_text \in Texts
    /\ x_start \in Starts
    /\ x_pc = "call"
    /\ x_i = 0
    /\ x_depth = 0
    /\ x_in_string = FALSE
    /\ x_escape = FALSE
    /\ x_result = NoSpan

notScan == <<spVars, fVars, pVars, tVars, eVars, bVars, gVars>>

\* Line 55: there is no opening brace at start.
NoObjectAt(text, start) ==
    IF start < 0 \/ start >= Len(text) THEN TRUE ELSE At(text, start) # "{"

\* Lines 55-56: nothing to scan at start.
ScanNoObject ==
    /\ x_pc = "call"
    /\ NoObjectAt(x_text, x_start)
    /\ x_pc' = "done"
    /\ x_result' = [value |-> None, span |-> <<>>]
    /\ UNCHANGED <<notScan, x_text, x_start, x_i, x_depth, x_in_string, x_escape>>

\* Lines 57-60: the scan starts at start.
ScanBegin ==
    /\ x_pc = "call"
    /\ ~NoObjectAt(x_text, x_start)
    /\ x_pc' = "scan"
    /\ x_i' = x_start
    /\ x_depth' = 0
    /\ x_in_string' = FALSE
    /\ x_escape' = FALSE
    /\ UNCHANGED <<notScan, x_text, x_start, x_result>>

\* Line 60-61: the loop body runs for i < len(text).
Scanning(ch) ==
    /\ x_pc = "scan"
    /\ x_i < Len(x_text)
    /\ At(x_text, x_i) = ch

\* continue, or the end of the loop body.
ScanOn ==
    /\ x_i' = x_i + 1
    /\ UNCHANGED <<notScan, x_text, x_start, x_pc, x_result>>

\* Lines 62-64: the character after a backslash.
ScanEscaped ==
    /\ \E ch \in Chars : Scanning(ch)
    /\ x_escape
    /\ x_escape' = FALSE
    /\ UNCHANGED <<x_depth, x_in_string>>
    /\ ScanOn

\* Lines 65-67: a backslash.
ScanBackslash ==
    /\ Scanning("\\")
    /\ ~x_escape
    /\ x_escape' = TRUE
    /\ UNCHANGED <<x_depth, x_in_string>>
    /\ ScanOn

\* ScanQuote for a scan that does not know strings.
ScanQuoteIgnored ==
    /\ Scanning("\"")
    /\ ~x_escape
    /\ UNCHANGED <<x_depth, x_in_string, x_escape>>
    /\ ScanOn

\* Lines 68-70: a double quote.
ScanQuote ==
    /\ Scanning("\"")
    /\ ~x_escape
    /\ x_in_string' = ~x_in_string
    /\ UNCHANGED <<x_depth, x_escape>>
    /\ ScanOn

\* Lines 71-72: a character of a string literal.
ScanInString ==
    /\ \E ch \in Chars \ {"\\", "\""} : Scanning(ch)
    /\ ~x_escape
    /\ x_in_string
    /\ UNCHANGED <<x_depth, x_in_string, x_escape>>
    /\ ScanOn

\* Lines 73-74: an opening brace.
ScanOpen ==
    /\ Scanning("{")
    /\ ~x_escape
    /\ ~x_in_string
    /\ x_depth' = x_depth + 1
    /\ UNCHANGED <<x_in_string, x_escape>>
    /\ ScanOn

\* Lines 75-76 with depth still positive.
ScanClose ==
    /\ Scanning("}")
    /\ ~x_escape
    /\ ~x_in_string
    /\ x_depth - 1 # 0
    /\ x_depth' = x_depth - 1
    /\ UNCHANGED <<x_in_string, x_escape>>
    /\ ScanOn

\* Lines 75-81: the brace that takes depth to zero; json.loads gets
\* text[start : i + 1].
ScanReturn ==
    /\ Scanning("}")
    /\ ~x_escape
    /\ ~x_in_string
    /\ x_depth - 1 = 0
    /\ x_depth' = x_depth - 1
    /\ x_pc' = "done"
    /\ x_result' = [value |-> JsonLoads(Slice(x_text, x_start, x_i + 1)),
                    span |-> <<x_start, x_i>>]
    /\ UNCHANGED <<notScan, x_text, x_start, x_i, x_in_string, x_escape>>

\* Lines 73-76: any other character outside a string literal.
ScanOther ==
    /\ Scanning(" ")
    /\ ~x_escape
    /\ ~x_in_string
    /\ UNCHANGED <<x_depth, x_in_string, x_escape>>
    /\ ScanOn

\* Line 82: the text ended with the object still open.
ScanUnclosed ==
    /\ x_pc = "scan"
    /\ x_i >= Len(x_text)
    /\ x_pc' = "done"
    /\ x_result' = [value |-> None, span |-> <<>>]
    /\ UNCHANGED <<notScan, x_text, x_start, x_i, x_depth, x_in_string, x_escape>>

ScanNext ==
    \/ ScanNoObject
    \/ ScanBegin
    \/ ScanEscaped
    \/ ScanBackslash
    \/ ScanQuote
    \/ ScanInString
    \/ ScanOpen
    \/ ScanClose
    \/ ScanReturn
    \/ ScanOther
    \/ ScanUnclosed

ScanSpec == ScanInit /\ [][ScanNext]_vars

(***************************************************************************)
(* scrape_masteries and scrape_champions on a fetched page                 *)
(***************************************************************************)

\* A page is a sequence of pieces of text.  The brackets, the comma and the
\* quotes are pieces of their own; the other pieces hold no bracket.
Quote == "\""
EscQuote == "\\\""

\* The anchors, as the page has them inside a JavaScript string and outside
\* of one, and the bare word my_champion_stats.
MasteriesKey == "masteries\\\":"
MasteriesKeyPlain == "\"masteries\":"
StatsKey == "my_champion_stats\\\":"
StatsKeyPlain == "\"my_champion_stats\":"
StatsWord == "my_champion_stats"

\* The text of the season totals that line 399 matches after unescaping.
HeaderText == "{\\\"game_type\\\":\\\"RANKED\\\",\\\"play\\\":34,\\\"win\\\":19,\\\"lose\\\":15}"

\* The objects of a payload, by a name: the text of each is one piece,
\* with its quotes escaped or not.
ObjectNames == {"all", "ahri", "jinx", "noplay", "badplay"}
RawObject(n) == "{\\\"" \o n \o "\\\"}"
CleanObject(n) == "{\"" \o n \o "\"}"

\* What json.loads makes of an object: an entry of the champions payload.
\* "noplay" has no play key; "badplay" has a string as play, for which the
\* model keeps a number that is never used.
EntryOf(n) ==
    CASE n = "all" -> ChampionsPage[1]
      [] n = "ahri" -> ChampionsPage[2]
      [] n = "jinx" -> ChampionsPage[3]
      [] n = "noplay" -> [k \in DOMAIN ChampionsPage[4] \ {"play"} |-> ChampionsPage[4][k]]
      [] n = "badplay" -> [ChampionsPage[4] EXCEPT !.champion_id = 778]

NonNumeric(n) == n = "badplay"

\* Decoded JSON values: an object, a string (its characters), a number, an
\* array (its elements).
Obj(n) == [t |-> "obj", o |-> n, s |-> <<>>, e |-> <<>>]
Str(s) == [t |-> "str", o |-> "", s |-> s, e |-> <<>>]
Num == [t |-> "num", o |-> "", s |-> <<>>, e |-> <<>>]
Arr(e) == [t |-> "arr", o |-> "", s |-> <<>>, e |-> e]

\* Most elements of an embedded array.
MaxElems == 2

\* The arrays the pages embed.  Their elements: the objects, strings holding
\* a letter or a bracket, a number, and an array.
ArrayValues ==
    LET elems == {Obj(n) : n \in ObjectNames}
                    \cup {Str(<<c>>) : c \in {"a", "[", "]"}}
                    \cup {Num, Arr(<<Str(<<"a">>)>>)}
    IN  UNION { [1..n -> elems] : n \in 1..MaxElems }

\* The text of a value as the page embeds it, with its quotes escaped (inside
\* a JavaScript string) or not.
RECURSIVE Render(_, _), RenderAll(_, _)
Render(v, escaped) ==
    CASE v.t = "obj" -> <<IF escaped THEN RawObject(v.o) ELSE CleanObject(v.o)>>
      [] v.t = "num" -> <<"7">>
      [] v.t = "str" -> LET q == IF escaped THEN EscQuote ELSE Quote
                        IN  <<q>> \o v.s \o <<q>>
      [] v.t = "arr" -> <<"[">> \o RenderAll(v.e, escaped) \o <<"]">>

RenderAll(e, escaped) ==
    IF e = <<>> THEN <<>>
    ELSE IF Len(e) = 1 THEN Render(e[1], escaped)
    ELSE Render(e[1], escaped) \o <<",">> \o RenderAll(Tail(e), escaped)

\* Text before and after the anchor and its array.
Prefixes == { <<>>, <<HeaderText, ",">>, <<StatsWord, "a">> }
Suffixes == { <<>>, <<"a", "]", "a">> }
Keys == {MasteriesKey, MasteriesKeyPlain, StatsKey, StatsKeyPlain, StatsWord, ""}

Embedded(key, e) == Render(Arr(e), key \notin {MasteriesKeyPlain, StatsKeyPlain})

\* str.find over the pieces: the first position from `from` on at which
\* Match holds, 0 when there is none (positions count from 1).
Find(html, from, Match(_)) ==
    LET hits == {p \in from..Len(html) : Match(p)}
    IN  IF hits = {} THEN 0 ELSE CHOOSE p \in hits : \A r \in hits : p <= r

IsObjectText(piece) ==
    \E n \in ObjectNames : piece \in {RawObject(n), CleanObject(n)}

\* The key at p, followed by "[" and, where the anchor says so, by "{".
KeyAt(html, p, key, object) ==
    /\ html[p] = key
    /\ p + 1 <= Len(html) /\ html[p + 1] = "["
    /\ object => (p + 2 <= Len(html) /\ IsObjectText(html[p + 2]))

\* Lines 277, 423.
ScanLimit == 500000

\* Lines 276-281 and 421-429: the position of the "]" at which the count of
\* "[" minus "]" from arr_start on is back at zero, 0 when there is none.
RECURSIVE BracketEnd(_, _, _, _)
BracketEnd(html, arr_start, i, depth) ==
    IF i > Len(html) \/ i >= arr_start + ScanLimit THEN 0
    ELSE IF html[i] = "[" THEN BracketEnd(html, arr_start, i + 1, depth + 1)
    ELSE IF html[i] = "]"
         THEN IF depth - 1 = 0 THEN i
              ELSE BracketEnd(html, arr_start, i + 1, depth - 1)
    ELSE BracketEnd(html, arr_start, i + 1, depth)

\* Lines 282 and 435: \" becomes ", in every piece.
Unescape(text) ==
    [k \in 1..Len(text) |->
        IF text[k] = EscQuote THEN Quote
        ELSE IF \E n \in ObjectNames : text[k] = RawObject(n)
             THEN CleanObject(CHOOSE n \in ObjectNames : text[k] = RawObject(n))
        ELSE IF text[k] = MasteriesKey THEN MasteriesKeyPlain
        ELSE IF text[k] = StatsKey THEN StatsKeyPlain
        ELSE text[k]]

\* json.loads over the pieces: [ok, v, next], next being the position after
\* the value; ok is FALSE for JSONDecodeError.
Undecodable == [ok |-> FALSE, v |-> Num, next |-> 0]
Decoded(v, next) == [ok |-> TRUE, v |-> v, next |-> next]

RECURSIVE ParseValue(_, _), ParseElements(_, _, _)
ParseValue(text, i) ==
    IF i > Len(text) THEN Undecodable
    ELSE IF \E n \in ObjectNames : text[i] = CleanObject(n)
         THEN Decoded(Obj(CHOOSE n \in ObjectNames : text[i] = CleanObject(n)), i + 1)
    ELSE IF text[i] = "7" THEN Decoded(Num, i + 1)
    ELSE IF text[i] = Quote
         THEN LET close == Find(text, i + 1, LAMBDA p : text[p] = Quote)
              IN  IF close = 0 THEN Undecodable
                  ELSE Decoded(Str(SubSeq(text, i + 1, close - 1)), close + 1)
    ELSE IF text[i] = "["
         THEN IF i + 1 <= Len(text) /\ text[i + 1] = "]"
              THEN Decoded(Arr(<<>>), i + 2)
              ELSE ParseElements(text, i + 1, <<>>)
    ELSE Undecodable

ParseElements(text, i, acc) ==
    LET r == ParseValue(text, i)
    IN  IF ~r.ok \/ r.next > Len(text) THEN Undecodable
        ELSE IF text[r.next] = ","
             THEN ParseElements(text, r.next + 1, Append(acc, r.v))
        ELSE IF text[r.next] = "]"
             THEN Decoded(Arr(Append(acc, r.v)), r.next + 1)
        ELSE Undecodable

JsonLoadsPieces(text) ==
    LET r == ParseValue(text, 1)
    IN  IF r.ok /\ r.next = Len(text) + 1 THEN r ELSE Undecodable

\* Lines 269-288 of scrape_masteries and 411-445 of scrape_champions: where
\* the anchor is (0 when absent), the span cut out (0, 0 when the scan finds
\* no end) and what it decodes to.
MasteriesAnchor(html) ==
    LET plain == Find(html, 1, LAMBDA p : KeyAt(html, p, MasteriesKeyPlain, TRUE))
    IN  IF plain # 0 THEN plain
        ELSE Find(html, 1, LAMBDA p : KeyAt(html, p, MasteriesKey, TRUE))

StatsWordAt(html) ==
    Find(html, 1, LAMBDA p : html[p] \in {StatsKey, StatsKeyPlain, StatsWord})

StatsAnchor(html) ==
    LET idx == StatsWordAt(html)
        raw == Find(html, idx, LAMBDA p : KeyAt(html, p, StatsKey, FALSE))
    IN  IF idx = 0 THEN 0
        ELSE IF raw # 0 THEN raw
        ELSE Find(html, idx, LAMBDA p : KeyAt(html, p, StatsKeyPlain, FALSE))

Extracted(html, anchor) ==
    LET arr_start == anchor + 1
        end == BracketEnd(html, arr_start, arr_start, 0)
        raw == IF end = 0 THEN <<>> ELSE SubSeq(html, arr_start, end)
    IN  [span |-> IF end = 0 THEN <<0, 0>> ELSE <<arr_start, end>>,
         decoded |-> JsonLoadsPieces(Unescape(raw))]

\* Lines 290-306: the record of one mastery object.
MasteryRecord(n) ==
    [champion_id |-> EntryOf(n).champion_id,
     champion_name |-> EntryOf(n).name,
     champion_key |-> OrStr(EntryOf(n).image_key, EntryOf(n).name, ""),
     level |-> 7,
     points |-> 250000]

\* scrape_masteries on the page html: what it returns, or that it raises
\* (m.get on an element that is no object is an AttributeError).
ScrapeMasteriesPage(html) ==
    LET anchor == MasteriesAnchor(html)
        x == Extracted(html, anchor)
        raw == x.decoded.v.e
    IN  IF anchor = 0
        THEN [adapter |-> "masteries", kind |-> "returned", anchor |-> 0,
              span |-> <<0, 0>>, decoded |-> Undecodable, value |-> <<>>]
        ELSE IF x.span = <<0, 0>> \/ ~x.decoded.ok
        THEN [adapter |-> "masteries", kind |-> "returned", anchor |-> anchor,
              span |-> x.span, decoded |-> x.decoded, value |-> <<>>]
        ELSE IF \E k \in 1..Len(raw) : raw[k].t # "obj"
        THEN [adapter |-> "masteries", kind |-> "raised", anchor |-> anchor,
              span |-> x.span, decoded |-> x.decoded, value |-> <<>>]
        ELSE [adapter |-> "masteries", kind |-> "returned", anchor |-> anchor,
              span |-> x.span, decoded |-> x.decoded,
              value |-> [k \in 1..Len(raw) |-> MasteryRecord(raw[k].o)]]

\* Line 448: the elements of champ_list that are objects.
Entries(champ_list) == SelectSeq(champ_list, LAMBDA v : v.t = "obj")

\* Lines 382-388.
ChampionsDefaults ==
    [season_games |-> 0, season_wins |-> 0, season_losses |-> 0,
     season_winrate |-> 0, champions |-> <<>>]

\* Lines 395-409: the totals, when the header stands before the anchor word.
SeasonHeader(html) ==
    IF \E p \in 1..(StatsWordAt(html) - 1) : html[p] = HeaderText
    THEN ChampionsHeader
    ELSE [play |-> 0, win |-> 0, lose |-> 0]

\* scrape_champions on the page html: what it returns, or that it raises (a
\* play that is no number fails in games > 0 or in the sort key).
ScrapeChampionsPage(html, role_map, static) ==
    LET anchor == StatsAnchor(html)
        x == Extracted(html, anchor)
        entries == Entries(x.decoded.v.e)
        page == [k \in 1..Len(entries) |-> EntryOf(entries[k].o)]
    IN  IF StatsWordAt(html) = 0
        THEN [adapter |-> "champions", kind |-> "returned", anchor |-> 0,
              span |-> <<0, 0>>, decoded |-> Undecodable, value |-> ChampionsDefaults]
        ELSE IF anchor = 0
        THEN [adapter |-> "champions", kind |-> "returned", anchor |-> 0,
              span |-> <<0, 0>>, decoded |-> Undecodable,
              value |-> ScrapeChampions(SeasonHeader(html), <<>>, role_map, static)]
        ELSE IF ~x.decoded.ok
        THEN [adapter |-> "champions", kind |-> "returned", anchor |-> anchor,
              span |-> x.span, decoded |-> x.decoded,
              value |-> ScrapeChampions(SeasonHeader(html), <<>>, role_map, static)]
        ELSE IF \E k \in 1..Len(entries) :
                    /\ "play" \in DOMAIN page[k]
                    /\ page[k].champion_id # 0
                    /\ NonNumeric(entries[k].o)
        THEN [adapter |-> "champions", kind |-> "raised", anchor |-> anchor,
              span |-> x.span, decoded |-> x.decoded, value |-> ChampionsDefaults]
        ELSE [adapter |-> "champions", kind |-> "returned", anchor |-> anchor,
              span |-> x.span, decoded |-> x.decoded,
              value |-> ScrapeChampions(SeasonHeader(html), page, role_map, static)]

\* _fetch has returned the page html to scrape_masteries or scrape_champions;
\* p_at is where its array starts.
PageCall ==
    /\ p_key \in Keys
    /\ p_array \in ArrayValues
    /\ \E prefix \in Prefixes, suffix \in Suffixes :
          /\ p_html = prefix \o (IF p_key = "" THEN <<>> ELSE <<p_key>>)
                          \o Embedded(p_key, p_array) \o suffix
          /\ p_at = Len(prefix) + (IF p_key = "" THEN 0 ELSE 1) + 1
    /\ p_pc = "fetched"
    /\ p_result = NoPageResult

notAdapter == <<spVars, fVars, xVars, bVars, gVars>>

\* The adapter runs to its end; scrape_champions has a role map for Ahri.
PageAdapter(adapter, kind) ==
    /\ p_pc = "fetched"
    /\ p_result' = IF adapter = "masteries" THEN ScrapeMasteriesPage(p_html)
                   ELSE ScrapeChampionsPage(p_html, [c \in {103} |-> "Top"], MerakiTable)
    /\ p_result'.kind = kind
    /\ p_pc' = "done"
    /\ UNCHANGED <<notAdapter, tVars, eVars, p_html, p_key, p_array, p_at>>

MasteriesReturn == PageAdapter("masteries", "returned")
MasteriesRaise == PageAdapter("masteries", "raised")
ChampionsReturn == PageAdapter("champions", "returned")
ChampionsRaise == PageAdapter("champions", "raised")

(***************************************************************************)
(* scrape_tier_from_multisearch                                            *)
(***************************************************************************)

\* Lines 102-110.
UnrankedResult ==
    [tier |-> "UNRANKED", division |-> NoDivision, lp |-> 0,
     resolved_name |-> None, resolved_tag |-> None, puuid |-> None]

\* scrape_tier_from_multisearch("faker", t_tag) has been called.  t_primary
\* and t_fallback are what the two searches give: a page with the
\* "data":[{"id" array, a page without it, or a ScrapeError; t_found is what
\* lines 132-172 read from a page that has the array.
TierCall ==
    /\ t_tag \in {"", "NA1"}
    /\ t_primary \in {"data", "nodata", "error"}
    /\ t_fallback \in {"data", "nodata", "error"}
    /\ t_found \in TierResults
    /\ t_pc = "fetch"
    /\ t_log = <<>>
    /\ t_data = FALSE
    /\ t_result = UnrankedResult

\* Lines 98-100, 116: the search for name#tag, or for the name without a tag.
TierFetch ==
    /\ t_pc = "fetch"
    /\ t_log' = Append(t_log, IF t_tag # "" THEN "faker#" \o t_tag ELSE "faker")
    /\ IF t_primary = "error"
       THEN t_pc' = "raised" /\ UNCHANGED t_data
       ELSE t_pc' = "fallback" /\ t_data' = (t_primary = "data")
    /\ UNCHANGED <<notAdapter, pVars, eVars, t_tag, t_primary, t_fallback, t_found, t_result>>

\* TierFallback without the test for a tag of line 119.
TierFallbackNoTag ==
    /\ t_pc = "fallback"
    /\ ~t_data
    /\ t_log' = Append(t_log, "faker")
    /\ t_data' = (t_fallback = "data")
    /\ t_pc' = "parse"
    /\ UNCHANGED <<notAdapter, pVars, eVars, t_tag, t_primary, t_fallback, t_found, t_result>>

\* TierFallback with the ScrapeError of the second search let through.
TierFallbackRaises ==
    /\ t_pc = "fallback"
    /\ ~t_data /\ t_tag # ""
    /\ t_log' = Append(t_log, "faker")
    /\ t_data' = (t_fallback = "data")
    /\ t_pc' = IF t_fallback = "error" THEN "raised" ELSE "parse"
    /\ UNCHANGED <<notAdapter, pVars, eVars, t_tag, t_primary, t_fallback, t_found, t_result>>

\* Lines 119-126: the search for the name alone; its ScrapeError is dropped.
TierFallback ==
    /\ t_pc = "fallback"
    /\ ~t_data /\ t_tag # ""
    /\ t_log' = Append(t_log, "faker")
    /\ t_data' = (t_fallback = "data")
    /\ t_pc' = "parse"
    /\ UNCHANGED <<notAdapter, pVars, eVars, t_tag, t_primary, t_fallback, t_found, t_result>>

\* Line 119 is false.
TierNoFallback ==
    /\ t_pc = "fallback"
    /\ ~(~t_data /\ t_tag # "")
    /\ t_pc' = "parse"
    /\ UNCHANGED <<notAdapter, pVars, eVars, t_tag, t_primary, t_fallback, t_found, t_log, t_data,
                   t_result>>

\* Lines 128-172: the defaults without the data array, else what is read.
TierReturn ==
    /\ t_pc = "parse"
    /\ t_result' = IF ~t_data THEN UnrankedResult ELSE t_found
    /\ t_pc' = "returned"
    /\ UNCHANGED <<notAdapter, pVars, eVars, t_tag, t_primary, t_fallback, t_found, t_log, t_data>>

(***************************************************************************)
(* The loop body of scrape_champions for one entry                         *)
(***************************************************************************)

\* Largest play, win and lose of the entry.
MaxCount == 4

\* The win_rate values of the entry, in hundredths of a percent.
WinRates == {0, 5000, 5554, 5556}

\* Line 447: c is an entry that has a play key and a champion id other
\* than 0, with or without a win_rate.
EntryCall ==
    /\ \E play \in 0..MaxCount, win \in 0..MaxCount, lose \in 0..MaxCount :
          \E base \in {[ChampionsPage[2] EXCEPT !.play = play, !.win = win, !.lose = lose]} :
             \/ \E w \in WinRates : e_entry = [base EXCEPT !.win_rate = w]
             \/ e_entry = [k \in DOMAIN base \ {"win_rate"} |-> base[k]]
    /\ e_pc = "entry"
    /\ e_record = NoRecord

\* Lines 456-505: the record that is appended to result["champions"].
AppendRecord ==
    /\ e_pc = "entry"
    /\ e_record' = ChampionRecord(e_entry, [c \in {103} |-> "Top"], MerakiTable)
    /\ e_pc' = "appended"
    /\ UNCHANGED <<notAdapter, pVars, tVars, e_entry>>

(***************************************************************************)
(* One call of one adapter                                                 *)
(***************************************************************************)

AdapterInit ==
    /\ ScrapeIdle
    /\ FetchIdle
    /\ ScanIdle
    /\ BanIdle
    /\ EngineIdle
    /\ \/ PageCall /\ TierIdle /\ EntryIdle
       \/ TierCall /\ PageIdle /\ EntryIdle
       \/ EntryCall /\ PageIdle /\ TierIdle

AdapterNext ==
    \/ MasteriesReturn
    \/ MasteriesRaise
    \/ ChampionsReturn
    \/ ChampionsRaise
    \/ AppendRecord
    \/ TierFetch
    \/ TierFallback
    \/ TierNoFallback
    \/ TierReturn

AdapterSpec == AdapterInit /\ [][AdapterNext]_vars

(***************************************************************************)
(* analysis.py: get_ban_recommendations                                    *)
(*                                                                         *)
(* Scores are floats in the code.  The model keeps the exact value of a    *)
(* score as an integer number of ten-thousandths (every factor of the code *)
(* is a decimal with at most two places) and the returned score, which is  *)
(* rounded to one decimal, as an integer number of tenths.                 *)
(***************************************************************************)

\* Lines 6-18, in tenths.
TIER_WEIGHTS ==
    [CHALLENGER |-> 20, GRANDMASTER |-> 18, MASTER |-> 16, DIAMOND |-> 13,
     EMERALD |-> 11, PLATINUM |-> 10, GOLD |-> 9, SILVER |-> 8, BRONZE |-> 7,
     IRON |-> 6, UNRANKED |-> 8]

\* The weights with those of GOLD and EMERALD exchanged.
TierWeightExchanged(tier) ==
    IF tier = "GOLD" THEN TIER_WEIGHTS["EMERALD"]
    ELSE IF tier = "EMERALD" THEN TIER_WEIGHTS["GOLD"]
    ELSE Get(TIER_WEIGHTS, tier, 10)

\* Line 64: TIER_WEIGHTS.get(tier, 1.0), in tenths.
TierWeight(tier) == Get(TIER_WEIGHTS, tier, 10)

\* Lines 22-28.
ROLE_ALIASES ==
    [top |-> {"top", "Top"},
     jungle |-> {"jgl", "Jgl", "jungle", "Jungle"},
     mid |-> {"mid", "Mid", "middle", "Middle"},
     bot |-> {"bot", "Bot", "adc", "ADC", "bottom", "Bottom"},
     support |-> {"sup", "Sup", "support", "Support"}]

\* Line 33 without the wildcard.
ChampMatchesRoleNoFill(champ_role, player_role) ==
    IF champ_role = <<>> \/ player_role = "" THEN TRUE
    ELSE \E k \in DOMAIN champ_role :
            champ_role[k] \in Get(ROLE_ALIASES, player_role, {player_role})

\* champ_matches_role(champ_role_str, player_role).  The role string of a
\* champion is held as the sequence of its stripped slash-separated parts,
\* the empty string as the empty sequence.
ChampMatchesRole(champ_role, player_role) ==
    IF champ_role = <<>> \/ player_role = "" \/ player_role = "fill" THEN TRUE
    ELSE \E k \in DOMAIN champ_role :
            champ_role[k] \in Get(ROLE_ALIASES, player_role, {player_role})

Max(a, b) == IF a > b THEN a ELSE b

\* Lines 67-73 and 114: the points of mastery_map.get(key), the last entry
\* of that name; 0 when there is none (no bonus either way).
MasteryPoints(masteries, key) ==
    LET hits == {k \in DOMAIN masteries : masteries[k].champion_name = key}
    IN  IF hits = {} THEN 0
        ELSE masteries[CHOOSE k \in hits : \A h \in hits : h <= k].points

\* Line 83, in hundredths.
OtpRatio(top_games) == Max(500 - (top_games - 10) * 5, 300)

\* Line 84, in ten-thousandths.
MainRatio(top_games) == Max(20000 - (top_games - 10) * 125, 15000)

\* Lines 76-91: otp_name and main_name.
OtpMain(champions) ==
    LET sorted_champs == SortByGames(champions)
        none == [otp_name |-> None, main_name |-> None]
    IN  IF Len(sorted_champs) >= 2
        THEN LET top_games == sorted_champs[1].games
                 second_games == sorted_champs[2].games
             IN  IF /\ top_games >= 20
                    /\ second_games > 0
                    /\ top_games * 100 >= second_games * OtpRatio(top_games)
                 THEN [none EXCEPT !.otp_name = sorted_champs[1].champion_name]
                 ELSE IF /\ top_games >= 10
                         /\ second_games > 0
                         /\ top_games * 10000 >= second_games * MainRatio(top_games)
                 THEN [none EXCEPT !.main_name = sorted_champs[1].champion_name]
                 ELSE none
        ELSE IF Len(sorted_champs) = 1 /\ sorted_champs[1].games >= 20
        THEN [none EXCEPT !.otp_name = sorted_champs[1].champion_name]
        ELSE none

\* math.log10 of the points; the model has it for the powers of ten.
Log10(points) == CHOOSE k \in 0..9 : 10^k = points

\* Lines 101-125: the score of the i-th champion of the player's list (i
\* counts from 1), in ten-thousandths.
ChampScore(player, i) ==
    LET champ == player.champions[i]
        key == champ.champion_name
        tier_weight == TierWeight(player.tier)
        ranked == champ.games * tier_weight *
                      (IF i = 1 THEN 15 ELSE IF i = 2 THEN 12 ELSE 10)
        points == MasteryPoints(player.masteries, key)
        score == IF points >= 10000 /\ ChampMatchesRole(champ.role, player.role)
                 THEN ranked + Log10(Max(points, 1)) * 5 * tier_weight * 10
                 ELSE ranked
        tags == OtpMain(player.champions)
    IN  score * (IF key = tags.otp_name THEN 115
                 ELSE IF key = tags.main_name THEN 110
                 ELSE 100)

\* Lines 58-61 and 94-98: the champions that score, as <<p, i>>: the i-th
\* of the first ten champions of the p-th player, who has stats, with at
\* least 3 games.
Scoring(team) ==
    UNION {{<<p, i>> : i \in {j \in 1..Min(10, Len(team[p].champions)) :
                                 team[p].champions[j].games >= 3}} :
           p \in {q \in DOMAIN team : team[q].has_stats}}

NameOf(team, pi) == team[pi[1]].champions[pi[2]].champion_name

\* The scoring entries of one champion.
ScoringFor(team, name) == {pi \in Scoring(team) : NameOf(team, pi) = name}

\* Line 127: entry["score"] += score over the entries of a set.
RECURSIVE SumScores(_, _)
SumScores(team, entries) ==
    IF entries = {} THEN 0
    ELSE LET pi == CHOOSE e \in entries : TRUE
         IN  ChampScore(team[pi[1]], pi[2]) + SumScores(team, entries \ {pi})

\* Line 127 with = in the place of +=: the score of the entry seen last.
TotalScoreLast(team, name) ==
    LET entries == ScoringFor(team, name)
        last == CHOOSE e \in entries : \A f \in entries :
                    f[1] * 11 + f[2] <= e[1] * 11 + e[2]
    IN  ChampScore(team[last[1]], last[2])

\* The accumulated score of a champion, in ten-thousandths.
TotalScore(team, name) == SumScores(team, ScoringFor(team, name))

\* Line 129 and 139: the names of the players that scored the champion.
Contributors(team, name) ==
    {team[pi[1]].game_name : pi \in ScoringFor(team, name)}

\* The keys of champ_scores.
ScoredNames(team) == {NameOf(team, pi) : pi \in Scoring(team)}

\* The place of a key in champ_scores, a dict: keys are kept in the order
\* in which they were first used.
FirstSeen(team, name) ==
    LET at == {pi[1] * 11 + pi[2] : pi \in ScoringFor(team, name)}
    IN  CHOOSE a \in at : \A b \in at : a <= b

\* Line 138: round(score, 1), in tenths.  The float sum is the exact score
\* up to representation error, so a score that lies exactly between two
\* tenths is rounded to either of them.
Tenths(score) ==
    IF score % 1000 = 500 THEN {score \div 1000, score \div 1000 + 1}
    ELSE {(score + 500) \div 1000}

\* The rounded scores the keys of champ_scores can get.
Roundings(team) ==
    LET names == ScoredNames(team)
        total == [n \in names |-> TotalScore(team, n)]
        halfway == {n \in names : total[n] % 1000 = 500}
    IN  {[n \in names |->
             IF n \in up THEN total[n] \div 1000 + 1
             ELSE IF n \in halfway THEN total[n] \div 1000
             ELSE (total[n] + 500) \div 1000] :
         up \in SUBSET halfway}

\* Lines 132-143: results, sorted by -score, a stable sort.
RECURSIVE SortedResults(_, _, _)
SortedResults(team, rounded, names) ==
    IF names = {} THEN <<>>
    ELSE LET seen == [n \in names |-> FirstSeen(team, n)]
             first == CHOOSE n \in names : \A m \in names :
                 \/ rounded[n] > rounded[m]
                 \/ /\ rounded[n] = rounded[m]
                    /\ seen[n] <= seen[m]
         IN  <<[champion_name |-> first,
                score |-> rounded[first],
                players |-> Contributors(team, first)]>>
             \o SortedResults(team, rounded, names \ {first})

\* s[:n]
SliceTo(s, n) ==
    IF n >= 0 THEN SubSeq(s, 1, Min(n, Len(s)))
    ELSE SubSeq(s, 1, Max(Len(s) + n, 0))

\* Line 145 with half the entries.
GetBanRecommendationsHalf(team, num_bans, rounded) ==
    SliceTo(SortedResults(team, rounded, ScoredNames(team)), num_bans)

\* get_ban_recommendations(opponent_team, num_bans) for one rounding of the
\* scores.  champion_key, champion_id and reasons of a result are left out.
GetBanRecommendations(team, num_bans, rounded) ==
    SliceTo(SortedResults(team, rounded, ScoredNames(team)), num_bans * 2)

\* The inputs.  A champion of a stats snapshot: name, games, role tags.
Roles == [Ahri |-> <<"Mid">>, Jinx |-> <<"ADC">>, Lux |-> <<"Mid", "Support">>]

GamesPlayed == {0, 3, 10, 20}

MaxChampions == 2

Champions ==
    {[champion_name |-> n, games |-> g, role |-> Roles[n]] :
        n \in DOMAIN Roles, g \in GamesPlayed}

\* Lists of champions of different names, in any order.
ChampionLists ==
    UNION {{s \in [1..n -> Champions] :
               \A i, j \in 1..n : i # j => s[i].champion_name # s[j].champion_name} :
           n \in 0..MaxChampions}

Tiers == DOMAIN TIER_WEIGHTS \cup {"WOOD"}

\* No masteries; Ahri just below and at the points that earn the bonus; Jinx,
\* whose role is not that of a mid player.
MasteryLists ==
    {<<>>,
     <<[champion_name |-> "Ahri", points |-> 9999]>>,
     <<[champion_name |-> "Ahri", points |-> 10000]>>,
     <<[champion_name |-> "Jinx", points |-> 10000]>>}

\* A mid player of any tier, and a player who has no stats snapshot (stats
\* is None).
FirstPlayers ==
    [game_name : {"one"}, role : {"mid"}, has_stats : {TRUE},
     tier : Tiers, champions : ChampionLists, masteries : MasteryLists]
        \cup {[game_name |-> "one", role |-> "top", has_stats |-> FALSE,
                tier |-> "UNRANKED", champions |-> <<>>, masteries |-> <<>>]}

\* A GOLD player without a fixed role.
OtherPlayer ==
    [game_name |-> "two", role |-> "fill", has_stats |-> TRUE,
     tier |-> "GOLD",
     champions |-> <<[champion_name |-> "Ahri", games |-> 10, role |-> Roles["Ahri"]],
                     [champion_name |-> "Lux", games |-> 3, role |-> Roles["Lux"]]>>,
     masteries |-> <<[champion_name |-> "Ahri", points |-> 100000]>>]

Teams ==
    {<<p>> : p \in FirstPlayers} \cup {<<p, OtherPlayer>> : p \in FirstPlayers}

NumBans == {1, 2}

BanCall ==
    /\ b_team \in Teams
    /\ b_num_bans \in NumBans
    /\ b_pc = "call"
    /\ b_scored = <<>>
    /\ b_result = <<>>

notBan == <<spVars, fVars, xVars, pVars, tVars, eVars, gVars>>

Recommend ==
    /\ b_pc = "call"
    /\ \E rounded \in Roundings(b_team) :
           /\ b_scored' = SortedResults(b_team, rounded, ScoredNames(b_team))
           /\ b_result' = GetBanRecommendations(b_team, b_num_bans, rounded)
    /\ b_pc' = "done"
    /\ UNCHANGED <<notBan, b_team, b_num_bans>>

BanInit ==
    /\ ScrapeIdle
    /\ FetchIdle
    /\ ScanIdle /\ PageIdle /\ TierIdle /\ EntryIdle
    /\ EngineIdle
    /\ BanCall

BanNext == Recommend

BanSpec == BanInit /\ [][BanNext]_vars

(***************************************************************************)
(* analysis.py: champ_matches_role on role strings                         *)
(*                                                                         *)
(* A role string is held as the sequence of its pieces: "/", " " and       *)
(* words without either.                                                   *)
(***************************************************************************)

\* str.split("/")
RECURSIVE SplitSlash(_)
SplitSlash(str) ==
    LET slashes == {k \in DOMAIN str : str[k] = "/"}
    IN  IF slashes = {} THEN <<str>>
        ELSE LET k == CHOOSE a \in slashes : \A b \in slashes : a <= b
             IN  <<SubSeq(str, 1, k - 1)>> \o SplitSlash(SubSeq(str, k + 1, Len(str)))

\* str.strip()
RECURSIVE Strip(_)
Strip(str) ==
    IF str = <<>> THEN str
    ELSE IF Head(str) = " " THEN Strip(Tail(str))
    ELSE IF str[Len(str)] = " " THEN Strip(SubSeq(str, 1, Len(str) - 1))
    ELSE str

\* The string the pieces spell.
RECURSIVE Text(_)
Text(str) == IF str = <<>> THEN "" ELSE Head(str) \o Text(Tail(str))

\* Lines 33 and 36-37: the stripped parts of a role string; none for the
\* empty string, which line 33 answers.
RoleParts(str) ==
    IF str = <<>> THEN <<>>
    ELSE [k \in DOMAIN SplitSlash(str) |-> Text(Strip(SplitSlash(str)[k]))]

\* champ_matches_role(champ_role_str, player_role)
ChampMatchesRoleStr(str, player_role) ==
    ChampMatchesRole(RoleParts(str), player_role)

RolePieces == {"Mid", "ADC", "/", " "}

MaxPieces == 3

RoleStrings == UNION {[1..n -> RolePieces] : n \in 0..MaxPieces}

\* No role, the wildcard, two roles with aliases and one without.
PlayerRoles == {"", "fill", "mid", "bot", "Mid"}

RoleCall ==
    /\ r_str \in RoleStrings
    /\ r_role \in PlayerRoles
    /\ r_pc = "call"
    /\ r_result = FALSE

notEngine == <<spVars, fVars, xVars, pVars, tVars, eVars, bVars, sVars,
               aVars>>

MatchRole ==
    /\ r_pc = "call"
    /\ r_result' = ChampMatchesRoleStr(r_str, r_role)
    /\ r_pc' = "done"
    /\ UNCHANGED <<notEngine, oVars, kVars, r_str, r_role>>

(***************************************************************************)
(* analysis.py: identify_one_tricks                                        *)
(***************************************************************************)

\* Lines 319-331: the tag of a player with champions; None when the player
\* is passed over (line 331).
TrickTag(champions) ==
    LET sorted_champs == SortByGames(champions)
        top_games == sorted_champs[1].games
        second_games == IF Len(sorted_champs) >= 2 THEN sorted_champs[2].games
                        ELSE 0
    IN  IF /\ top_games >= 20
           /\ second_games > 0
           /\ top_games * 100 >= second_games * OtpRatio(top_games)
        THEN "OTP"
        ELSE IF top_games >= 20 /\ second_games = 0 THEN "OTP"
        ELSE IF /\ top_games >= 10
                /\ second_games > 0
                /\ top_games * 10000 >= second_games * MainRatio(top_games)
        THEN "MAIN"
        ELSE None

\* sum(c["games"] for c in stats["champions"])
RECURSIVE SumGames(_)
SumGames(champions) ==
    IF champions = <<>> THEN 0
    ELSE Head(champions).games + SumGames(Tail(champions))

\* Lines 333-342: the entry of a tagged player.  The snapshots of the model
\* have no season total, so that total is the sum of line 322;
\* champion_key and winrate are left out.
TrickEntry(player) ==
    LET top == SortByGames(player.champions)[1]
    IN  [player |-> player.game_name,
         role |-> player.role,
         champion |-> top.champion_name,
         games |-> top.games,
         pct |-> Round1(top.games, Max(SumGames(player.champions), 1)),
         tag |-> TrickTag(player.champions)]

\* identify_one_tricks(team), on the players of the team.
RECURSIVE IdentifyOneTricks(_)
IdentifyOneTricks(players) ==
    IF players = <<>> THEN <<>>
    ELSE LET player == Head(players)
             rest == IdentifyOneTricks(Tail(players))
         IN  IF ~player.has_stats \/ player.champions = <<>> THEN rest
             ELSE IF TrickTag(player.champions) = None THEN rest
             ELSE <<TrickEntry(player)>> \o rest

\* Teams of GOLD players without masteries, and of players without stats.
TrickTeams ==
    {team \in Teams :
        /\ team[1].has_stats => team[1].tier = "GOLD"
        /\ team[1].masteries = <<>>}

TricksCall ==
    /\ o_team \in TrickTeams
    /\ o_pc = "call"
    /\ o_result = <<>>

OneTricks ==
    /\ o_pc = "call"
    /\ o_result' = IdentifyOneTricks(o_team)
    /\ o_pc' = "done"
    /\ UNCHANGED <<notEngine, rVars, kVars, o_team>>

(***************************************************************************)
(* analysis.py: get_pick_recommendations                                   *)
(***************************************************************************)

\* The names scraper.py defines at its top level.
ScraperNames ==
    {"HEADERS", "TIMEOUT", "MAX_RETRIES", "RETRY_DELAYS", "ScrapeError",
     "_fetch", "_extract_json_object_at", "_unescape_rsc",
     "scrape_tier_from_multisearch", "scrape_season_history",
     "scrape_masteries", "UGG_API", "UGG_ROLE_MAP",
     "scrape_champion_roles_ugg", "scrape_champions", "trigger_opgg_renewal",
     "scrape_player", "parse_opgg_multi_link", "parse_player_input",
     "get_ddragon_version", "get_champion_roles", "ROLE_SHORT",
     "_get_champion_key_map", "champion_icon_url"}

\* Lines 251-255: what the counter matchup adds to the score, for a
\* counter_advantage in whole percent.
CounterTerm(counter_advantage) ==
    IF counter_advantage > 2 THEN counter_advantage * 3
    ELSE IF counter_advantage < -2 THEN counter_advantage * 2
    ELSE 0

\* Lines 238-283: the score of a candidate before it is rounded, in
\* thousandths.  opp_main_wr is counter_data[name] in whole percent and
\* has_counter tells whether counter_data has the name; opp_tier_weight is
\* in tenths.
CandidateScore(games, mastery_pts, opp_tier_weight, has_counter, opp_main_wr, banned) ==
    LET counter == IF has_counter THEN CounterTerm((100 - opp_main_wr) - 50) * 100
                   ELSE 0
        mastery_multiplier == Max(150 - opp_tier_weight * 5, 50)
        mastery_score == IF mastery_pts >= 10000
                         THEN Log10(mastery_pts) * 5 * mastery_multiplier
                         ELSE 0
        score == counter + mastery_score + Min(games * 50, 1000)
    IN  IF banned THEN score * 2 ELSE score * 10

NoPicks == [kind |-> "none", error |-> None, picks |-> <<>>]

\* Teams of one player with at most one champion.
PickTeams ==
    {team \in TrickTeams : Len(team) = 1 /\ Len(team[1].champions) <= 1}

PickCall ==
    /\ k_my_team \in PickTeams
    /\ k_opp_team \in PickTeams
    /\ k_pc = "call"
    /\ k_result = NoPicks

\* Line 158: from scraper import scrape_counters.  scraper.py defines no
\* such name, so the import raises ImportError; lines 160-298 are never
\* reached.
PickImportError ==
    /\ k_pc = "call"
    /\ "scrape_counters" \notin ScraperNames
    /\ k_result' = [kind |-> "raised", error |-> "ImportError", picks |-> <<>>]
    /\ k_pc' = "done"
    /\ UNCHANGED <<notEngine, rVars, oVars, k_my_team, k_opp_team>>

(***************************************************************************)
(* storage.py: load, update_player and save, and the writers of app.py     *)
(***************************************************************************)

\* The ids of the players of the stored roster, and an id it does not have.
PlayerIds == {"p1", "p2"}

Targets == PlayerIds \cup {"gone"}

\* The snapshot a player has before the writers run: a roster edit gave it
\* the field peak_tier, which no scraped snapshot has.
StoredStats == [tier |-> "SILVER", peak_tier |-> "DIAMOND"]

\* What scrape_player hands to a refresh.
ScrapedStats == {[tier |-> "GOLD"], [tier |-> "IRON"]}

\* The keyword arguments of update_player: stats for a refresh, role for a
\* roster edit.
Kwargs == {[stats |-> s] : s \in ScrapedStats} \cup {[role |-> "bot"]}

StoredData == [id \in PlayerIds |-> [role |-> "mid", stats |-> StoredStats]]

\* update_player turning a field of the old snapshot into a field of the new.
UpdatePlayerMerges(data, player_id, kwargs) ==
    IF player_id \notin DOMAIN data THEN data
    ELSE [data EXCEPT ![player_id] =
            [role |-> IF "role" \in DOMAIN kwargs THEN kwargs.role ELSE @.role,
             stats |-> IF "stats" \in DOMAIN kwargs
                       THEN [key \in DOMAIN @.stats \cup DOMAIN kwargs.stats |->
                                IF key \in DOMAIN kwargs.stats
                                THEN kwargs.stats[key] ELSE @.stats[key]]
                       ELSE @.stats]]
\* Lines 104-112 of storage.py: data after update_player(data, player_id,
\* **kwargs).  The player found gets the fields passed, stats as a whole.
UpdatePlayer(data, player_id, kwargs) ==
    IF player_id \notin DOMAIN data THEN data
    ELSE [data EXCEPT ![player_id] =
            [role |-> IF "role" \in DOMAIN kwargs THEN kwargs.role ELSE @.role,
             stats |-> IF "stats" \in DOMAIN kwargs THEN kwargs.stats
                       ELSE @.stats]]

StoreCall ==
    /\ s_file = StoredData
    /\ w_player \in [Writers -> Targets]
    /\ w_kwargs \in [Writers -> Kwargs]
    /\ w_pc = [w \in Writers |-> "start"]
    /\ w_data = [w \in Writers |-> <<>>]

notStore == <<spVars, fVars, xVars, pVars, tVars, eVars, bVars, rVars, oVars,
              kVars, aVars>>

\* Lines 29-36 of storage.py: load() of the file that exists, as one step
\* under _lock.  The writer then holds its own copy of the roster.
Load(w) ==
    /\ w_pc[w] = "start"
    /\ w_data' = [w_data EXCEPT ![w] = s_file]
    /\ w_pc' = [w_pc EXCEPT ![w] = "loaded"]
    /\ UNCHANGED <<notStore, s_file, w_player, w_kwargs>>

\* Lines 104-114: update_player on the writer's copy, which save (lines
\* 39-45) writes as the whole file under _lock; nothing is written when the
\* copy has no such player.
UpdateAndSave(w) ==
    /\ w_pc[w] = "loaded"
    /\ w_data' = [w_data EXCEPT ![w] = UpdatePlayer(@, w_player[w], w_kwargs[w])]
    /\ s_file' = IF w_player[w] \in DOMAIN w_data[w] THEN w_data'[w] ELSE s_file
    /\ w_pc' = [w_pc EXCEPT ![w] = "done"]
    /\ UNCHANGED <<notStore, w_player, w_kwargs>>

StoreInit ==
    /\ ScrapeIdle
    /\ FetchIdle
    /\ ScanIdle /\ PageIdle /\ TierIdle /\ EntryIdle /\ BanIdle
    /\ RoleIdle /\ TricksIdle /\ PicksIdle /\ AppIdle
    /\ StoreCall

StoreNext == \E w \in Writers : Load(w) \/ UpdateAndSave(w)

StoreSpec == StoreInit /\ [][StoreNext]_vars

(***************************************************************************)
(* The functions of analysis.py and storage.py, one call each              *)
(***************************************************************************)

\* Teams whose first player is of the lowest, a middle or the highest
\* tier, or has no stats.
BanTeams ==
    {team \in Teams :
        team[1].has_stats => team[1].tier \in {"IRON", "GOLD", "CHALLENGER"}}

\* A call of get_ban_recommendations on one of these teams.
EngineBanCall ==
    /\ b_team \in BanTeams
    /\ b_num_bans \in NumBans
    /\ b_pc = "call"
    /\ b_scored = <<>>
    /\ b_result = <<>>

EngineInit ==
    /\ ScrapeIdle
    /\ FetchIdle
    /\ ScanIdle /\ PageIdle /\ TierIdle /\ EntryIdle /\ AppIdle
    /\ \/ RoleCall /\ TricksIdle /\ PicksIdle /\ BanIdle /\ StoreIdle
       \/ TricksCall /\ RoleIdle /\ PicksIdle /\ BanIdle /\ StoreIdle
       \/ PickCall /\ RoleIdle /\ TricksIdle /\ BanIdle /\ StoreIdle
       \/ EngineBanCall /\ RoleIdle /\ TricksIdle /\ PicksIdle /\ StoreIdle
       \/ StoreCall /\ RoleIdle /\ TricksIdle /\ PicksIdle /\ BanIdle

EngineNext ==
    \/ MatchRole
    \/ OneTricks
    \/ PickImportError
    \/ Recommend
    \/ \E w \in Writers : Load(w) \/ UpdateAndSave(w)

EngineSpec == EngineInit /\ [][EngineNext]_vars

(***************************************************************************)
(* app.py: the refresh of a team                                           *)
(***************************************************************************)

\* The variables of everything but app.py.
notApp == <<spVars, fVars, xVars, pVars, tVars, eVars, bVars, rVars, oVars,
            kVars, sVars>>

notJob == <<notApp, lVars, mVars, dVars>>

notLock == <<notApp, jVars, mVars, dVars>>

notRoster == <<notApp, jVars, lVars, dVars>>

notVersion == <<notApp, jVars, lVars, mVars>>

\* A job dictionary as line 285 creates it, and with it the players that
\* line 295 hands the worker started for it.
NewJob(players) ==
    [status |-> "running", results |-> <<>>, total |-> Cardinality(players),
     done |-> 0, current |-> None, players |-> players]

\* Line 282: a job of the team is recorded and running.
JobRunning == j_ref # 0 /\ j_heap[j_ref].status = "running"

\* Lines 276-279 of api_refresh_team: the roster is loaded and the team,
\* which exists, is found in it.
ReqLoad(h) ==
    /\ j_req[h] = "start"
    /\ j_snap' = [j_snap EXCEPT ![h] = j_roster]
    /\ j_req' = [j_req EXCEPT ![h] = "check"]
    /\ UNCHANGED <<j_roster, j_heap, j_ref, j_wpc, j_wjob, j_left, j_cur,
                   j_tmp>>
    /\ UNCHANGED notJob

\* Lines 281-283: the job of the team is looked up.  The handler answers
\* already_running or goes on.
ReqCheck(h) ==
    /\ j_req[h] = "check"
    /\ j_req' = [j_req EXCEPT ![h] = IF JobRunning THEN "already_running"
                                      ELSE "set"]
    /\ UNCHANGED <<j_roster, j_heap, j_ref, j_snap, j_wpc, j_wjob, j_left,
                   j_cur, j_tmp>>
    /\ UNCHANGED notJob

\* Lines 285-291: _refresh_jobs[team_id] names a new dictionary.
ReqSet(h) ==
    /\ j_req[h] = "set"
    /\ j_heap' = Append(j_heap, NewJob(j_snap[h]))
    /\ j_ref' = Len(j_heap) + 1
    /\ j_req' = [j_req EXCEPT ![h] = "spawn"]
    /\ UNCHANGED <<j_roster, j_snap, j_wpc, j_wjob, j_left, j_cur, j_tmp>>
    /\ UNCHANGED notJob

\* Lines 293-300: the worker thread is started on a copy of the players the
\* handler loaded, and the handler answers started.
ReqSpawn(h) ==
    /\ j_req[h] = "spawn"
    /\ j_wpc' = [j_wpc EXCEPT ![h] = "begin"]
    /\ j_left' = [j_left EXCEPT ![h] = j_snap[h]]
    /\ j_req' = [j_req EXCEPT ![h] = "started"]
    /\ UNCHANGED <<j_roster, j_heap, j_ref, j_snap, j_wjob, j_cur, j_tmp>>
    /\ UNCHANGED notJob

\* Lines 253-258 of _refresh_team_worker: the worker reads the job of the
\* team out of _refresh_jobs and submits a scrape of every player.
WorkerBegin(w) ==
    /\ j_wpc[w] = "begin"
    /\ j_wjob' = [j_wjob EXCEPT ![w] = j_ref]
    /\ j_wpc' = [j_wpc EXCEPT ![w] = "loop"]
    /\ UNCHANGED <<j_roster, j_heap, j_ref, j_req, j_snap, j_left, j_cur,
                   j_tmp>>
    /\ UNCHANGED notJob

\* Lines 259-263 with lines 240-246: as_completed hands over the future of
\* some player; _refresh_one_player returned the statistics or the text of
\* the exception.  With statistics the roster is loaded, updated and saved:
\* update_player leaves the roster as it is when the player is gone.
WorkerTake(w) ==
    /\ j_wpc[w] = "loop"
    /\ \E p \in j_left[w], ok \in BOOLEAN :
           /\ j_cur' = [j_cur EXCEPT ![w] = [player |-> p, success |-> ok]]
           /\ j_left' = [j_left EXCEPT ![w] = @ \ {p}]
    /\ j_wpc' = [j_wpc EXCEPT ![w] = "append"]
    /\ UNCHANGED <<j_roster, j_heap, j_ref, j_req, j_snap, j_wjob, j_tmp>>
    /\ UNCHANGED notJob

\* Lines 264-266: the entry of the player is appended to the results.
WorkerAppend(w) ==
    /\ j_wpc[w] = "append"
    /\ j_heap' = [j_heap EXCEPT ![j_wjob[w]].results = Append(@, j_cur[w])]
    /\ j_wpc' = [j_wpc EXCEPT ![w] = "read"]
    /\ UNCHANGED <<j_roster, j_ref, j_req, j_snap, j_wjob, j_left, j_cur,
                   j_tmp>>
    /\ UNCHANGED notJob

\* Line 267, job["done"] += 1, first half: the count is read.
WorkerRead(w) ==
    /\ j_wpc[w] = "read"
    /\ j_tmp' = [j_tmp EXCEPT ![w] = j_heap[j_wjob[w]].done]
    /\ j_wpc' = [j_wpc EXCEPT ![w] = "write"]
    /\ UNCHANGED <<j_roster, j_heap, j_ref, j_req, j_snap, j_wjob, j_left,
                   j_cur>>
    /\ UNCHANGED notJob

\* Lines 267-268: the count read plus one is stored, then the name of the
\* player as current.
WorkerWrite(w) ==
    /\ j_wpc[w] = "write"
    /\ j_heap' = [j_heap EXCEPT ![j_wjob[w]].done = j_tmp[w] + 1,
                                ![j_wjob[w]].current = j_cur[w].player]
    /\ j_wpc' = [j_wpc EXCEPT ![w] = "loop"]
    /\ UNCHANGED <<j_roster, j_ref, j_req, j_snap, j_wjob, j_left, j_cur,
                   j_tmp>>
    /\ UNCHANGED notJob

\* Lines 270-271: every future was handed over; the job is complete.
WorkerComplete(w) ==
    /\ j_wpc[w] = "loop"
    /\ j_left[w] = {}
    /\ j_heap' = [j_heap EXCEPT ![j_wjob[w]].status = "complete",
                                ![j_wjob[w]].current = None]
    /\ j_wpc' = [j_wpc EXCEPT ![w] = "ended"]
    /\ UNCHANGED <<j_roster, j_ref, j_req, j_snap, j_wjob, j_left, j_cur,
                   j_tmp>>
    /\ UNCHANGED notJob

\* api_delete_player on storage.delete_player: a player leaves the roster
\* while requests and workers run.
DeletePlayer ==
    /\ \E h \in Handlers : j_req[h] # "idle"
    /\ \E p \in j_roster : j_roster' = j_roster \ {p}
    /\ UNCHANGED <<j_heap, j_ref, j_req, j_snap, j_wpc, j_wjob, j_left,
                   j_cur, j_tmp>>
    /\ UNCHANGED notJob

\* Two requests to refresh one team, each handled by a thread of the
\* server.
JobInit ==
    /\ ScrapeIdle
    /\ FetchIdle
    /\ LibIdle
    /\ LockIdle
    /\ RosterIdle
    /\ VersionIdle
    /\ j_roster \in SUBSET JobPlayers
    /\ j_heap = <<>>
    /\ j_ref = 0
    /\ j_req = [h \in Handlers |-> "start"]
    /\ j_snap = [h \in Handlers |-> {}]
    /\ j_wpc = [h \in Handlers |-> "none"]
    /\ j_wjob = [h \in Handlers |-> 0]
    /\ j_left = [h \in Handlers |-> {}]
    /\ j_cur = [h \in Handlers |-> NoEntry]
    /\ j_tmp = [h \in Handlers |-> 0]

JobNext ==
    \/ \E h \in Handlers :
           \/ ReqLoad(h)
           \/ ReqCheck(h)
           \/ ReqSet(h)
           \/ ReqSpawn(h)
           \/ WorkerBegin(h)
           \/ WorkerTake(h)
           \/ WorkerAppend(h)
           \/ WorkerRead(h)
           \/ WorkerWrite(h)
           \/ WorkerComplete(h)
    \/ DeletePlayer

JobSpec == JobInit /\ [][JobNext]_vars

\* The threads of the server and of the pool run on: each step of a handler
\* and of a worker that can be taken is taken.
JobFairSpec ==
    /\ JobSpec
    /\ \A h \in Handlers :
           WF_vars(ReqLoad(h) \/ ReqCheck(h) \/ ReqSet(h) \/ ReqSpawn(h) \/ WorkerBegin(h)
                   \/ WorkerTake(h) \/ WorkerAppend(h) \/ WorkerRead(h)
                   \/ WorkerWrite(h) \/ WorkerComplete(h))

(***************************************************************************)
(* storage.py: load, save and _lock                                        *)
(***************************************************************************)

\* Line 30: load() enters its with block when _lock is free.
LoadAcquire(c) ==
    /\ l_pc[c] = "call"
    /\ l_op[c] = "load"
    /\ l_lock = 0
    /\ l_lock' = c
    /\ l_pc' = [l_pc EXCEPT ![c] = "locked"]
    /\ UNCHANGED <<l_exists, l_op, l_ret>>
    /\ UNCHANGED notLock

\* Lines 31 and 35-36: the file exists; it is read and returned, and the
\* with block gives _lock back.
LoadRead(c) ==
    /\ l_pc[c] = "locked"
    /\ l_exists
    /\ l_lock' = 0
    /\ l_ret' = [l_ret EXCEPT ![c] = "file"]
    /\ l_pc' = [l_pc EXCEPT ![c] = "returned"]
    /\ UNCHANGED <<l_exists, l_op>>
    /\ UNCHANGED notLock

\* Lines 31-33: the file does not exist; the default tournament is made
\* and save() is called with _lock held.
LoadDefault(c) ==
    /\ l_pc[c] = "locked"
    /\ ~l_exists
    /\ l_pc' = [l_pc EXCEPT ![c] = "save"]
    /\ UNCHANGED <<l_lock, l_exists, l_op, l_ret>>
    /\ UNCHANGED notLock

\* A caller calls save().
SaveCall(c) ==
    /\ l_pc[c] = "call"
    /\ l_op[c] = "save"
    /\ l_pc' = [l_pc EXCEPT ![c] = "save"]
    /\ UNCHANGED <<l_lock, l_exists, l_op, l_ret>>
    /\ UNCHANGED notLock

\* Line 40: save() enters its with block when _lock is free; _lock is a
\* threading.Lock (line 11), which the thread that holds it cannot take
\* again.
SaveAcquire(c) ==
    /\ l_pc[c] = "save"
    /\ l_lock = 0
    /\ l_lock' = c
    /\ l_pc' = [l_pc EXCEPT ![c] = "saving"]
    /\ UNCHANGED <<l_exists, l_op, l_ret>>
    /\ UNCHANGED notLock

\* Lines 41-45: the file is written and the with block of save() gives
\* _lock back.  Within load(), line 34 then returns the default tournament.
SaveWrite(c) ==
    /\ l_pc[c] = "saving"
    /\ l_exists' = TRUE
    /\ l_lock' = 0
    /\ l_ret' = [l_ret EXCEPT ![c] = IF l_op[c] = "load" THEN "default"
                                      ELSE None]
    /\ l_pc' = [l_pc EXCEPT ![c] = "returned"]
    /\ UNCHANGED l_op
    /\ UNCHANGED notLock

\* Threads that each call load() or save() once, the data file there or
\* not.
LockInit ==
    /\ ScrapeIdle
    /\ FetchIdle
    /\ LibIdle
    /\ JobIdle
    /\ RosterIdle
    /\ VersionIdle
    /\ l_lock = 0
    /\ l_exists \in BOOLEAN
    /\ l_op \in [Callers -> {"load", "save"}]
    /\ l_pc = [c \in Callers |-> "call"]
    /\ l_ret = [c \in Callers |-> None]

LockNext ==
    \E c \in Callers :
        \/ LoadAcquire(c)
        \/ LoadRead(c)
        \/ LoadDefault(c)
        \/ SaveCall(c)
        \/ SaveAcquire(c)
        \/ SaveWrite(c)

LockSpec == LockInit /\ [][LockNext]_vars

\* Every thread runs on: a step it can take for good is taken.  A thread
\* that waits for _lock gets it once the lock stays free.
LockFairSpec ==
    /\ LockSpec
    /\ \A c \in Callers :
           WF_vars(LoadAcquire(c) \/ LoadRead(c) \/ LoadDefault(c)
                   \/ SaveCall(c) \/ SaveAcquire(c) \/ SaveWrite(c))

(***************************************************************************)
(* app.py and storage.py: the teams and my team                            *)
(***************************************************************************)

\* The ids of the teams of a roster.
TeamIdsOf(data) == {data.teams[n].id : n \in DOMAIN data.teams}

\* Lines 48-52: get_team, as the index of the first team of that id, or 0.
GetTeam(data, team_id) ==
    IF team_id \in TeamIdsOf(data)
    THEN CHOOSE n \in DOMAIN data.teams :
             /\ data.teams[n].id = team_id
             /\ \A k \in 1..(n - 1) : data.teams[k].id # team_id
    ELSE 0

RECURSIVE TeamsWithout(_, _)
\* Line 77: the teams whose id is not team_id, in their order.
TeamsWithout(teams, team_id) ==
    IF teams = <<>> THEN <<>>
    ELSE IF Head(teams).id = team_id THEN TeamsWithout(Tail(teams), team_id)
         ELSE <<Head(teams)>> \o TeamsWithout(Tail(teams), team_id)

\* delete_team without lines 79-80: my_team_id is left as it is.
DeleteTeamKeepsMine(data, team_id) ==
    LET teams == TeamsWithout(data.teams, team_id) IN
    IF Len(teams) < Len(data.teams)
    THEN [data |-> [data EXCEPT !.teams = teams], saved |-> TRUE]
    ELSE [data |-> data, saved |-> FALSE]

\* Lines 75-83: delete_team, as the roster it leaves and whether it saved.
DeleteTeam(data, team_id) ==
    LET teams == TeamsWithout(data.teams, team_id) IN
    IF Len(teams) < Len(data.teams)
    THEN [data |-> [teams |-> teams,
                    my_team_id |-> IF data.my_team_id = team_id THEN None
                                   ELSE data.my_team_id],
          saved |-> TRUE]
    ELSE [data |-> data, saved |-> FALSE]

\* Lines 84-90 of app.py with lines 64-72 of storage.py: api_create_team.
\* A name that strips to nothing is refused; generate_id draws the id.
CreateTeam(data, team_id, name) ==
    IF name = "" THEN [data |-> data, saved |-> FALSE]
    ELSE [data |-> [data EXCEPT !.teams =
                        Append(@, [id |-> team_id, name |-> name])],
          saved |-> TRUE]

\* Lines 94-109 of app.py: api_update_team with a body that may hold a name
\* and set_my_team.
UpdateTeam(data, team_id, name, set_my_team) ==
    LET n == GetTeam(data, team_id) IN
    IF n = 0 THEN [data |-> data, saved |-> FALSE]
    ELSE [data |->
              [teams |-> IF name = None THEN data.teams
                         ELSE [data.teams EXCEPT ![n].name = name],
               my_team_id |-> IF set_my_team THEN team_id
                              ELSE data.my_team_id],
          saved |-> TRUE]

\* The first line of each handler: storage.load() hands the handler its
\* copy of the file.
RosterLoad(h) ==
    /\ m_pc[h] = "idle"
    /\ m_data' = [m_data EXCEPT ![h] = m_file]
    /\ m_pc' = [m_pc EXCEPT ![h] = "loaded"]
    /\ UNCHANGED <<m_file, m_last>>
    /\ UNCHANGED notRoster

\* The handler has changed its copy; save() writes the copy over the file
\* if the operation saved.
Finish(h, request, out) ==
    /\ m_file' = IF out.saved THEN out.data ELSE m_file
    /\ m_last' = [request EXCEPT !.saved = out.saved]
    /\ m_data' = [m_data EXCEPT ![h] = NoRoster]
    /\ m_pc' = [m_pc EXCEPT ![h] = "idle"]
    /\ UNCHANGED notRoster

\* Lines 84-90 of app.py: api_create_team.
ApiCreateTeam(h) ==
    /\ m_pc[h] = "loaded"
    /\ Len(m_data[h].teams) < MaxTeams
    /\ \E t \in TeamIds, name \in TeamNames :
           Finish(h, [op |-> "create", id |-> t, saved |-> FALSE],
                  CreateTeam(m_data[h], t, name))

\* Lines 94-109 of app.py: api_update_team.
ApiUpdateTeam(h) ==
    /\ m_pc[h] = "loaded"
    /\ \E t \in TeamIds, name \in TeamNames \cup {None}, my \in BOOLEAN :
           Finish(h, [op |-> "update", id |-> t, saved |-> FALSE],
                  UpdateTeam(m_data[h], t, name, my))

\* Lines 113-117 of app.py: api_delete_team.
ApiDeleteTeam(h) ==
    /\ m_pc[h] = "loaded"
    /\ \E t \in TeamIds :
           Finish(h, [op |-> "delete", id |-> t, saved |-> FALSE],
                  DeleteTeam(m_data[h], t))

\* The file as default_tournament makes it (lines 18-26 of storage.py), and
\* handlers of the server that take requests for ever.
RosterInit ==
    /\ ScrapeIdle
    /\ FetchIdle
    /\ LibIdle
    /\ JobIdle
    /\ LockIdle
    /\ VersionIdle
    /\ m_file = NoRoster
    /\ m_data = [h \in Handlers |-> NoRoster]
    /\ m_pc = [h \in Handlers |-> "idle"]
    /\ m_last = NoRequest

RosterNext ==
    \E h \in Handlers :
        \/ RosterLoad(h)
        \/ ApiCreateTeam(h)
        \/ ApiUpdateTeam(h)
        \/ ApiDeleteTeam(h)

RosterSpec == RosterInit /\ [][RosterNext]_vars

(***************************************************************************)
(* scraper.py: get_ddragon_version                                         *)
(***************************************************************************)

\* Lines 677-680 with <= in the place of <.
FreshInclusive(version, fetched_at, now) ==
    version # None /\ now - fetched_at <= TTL

\* Lines 677-680: a version is cached and was fetched less than a day
\* before now.
Fresh(version, fetched_at, now) ==
    version # None /\ now - fetched_at < TTL

\* time.time() moves on.
Tick ==
    /\ d_ticks < MaxTicks
    /\ \E d \in {1, TTL - 1} : d_clock' = d_clock + d
    /\ d_ticks' = d_ticks + 1
    /\ UNCHANGED <<d_cache, d_pc, d_now, d_seen, d_new, d_ret, d_fetched>>
    /\ UNCHANGED notVersion

\* Lines 676-678: the time is read, then the version in the cache.
VersionCall(c) ==
    /\ d_pc[c] = "idle"
    /\ d_now' = [d_now EXCEPT ![c] = d_clock]
    /\ d_seen' = [d_seen EXCEPT ![c] = [version |-> d_cache.version,
                                        fetched_at |-> 0]]
    /\ d_ret' = [d_ret EXCEPT ![c] = NoReturn]
    /\ d_pc' = [d_pc EXCEPT ![c] = IF d_cache.version # None THEN "age"
                                    ELSE "fetch"]
    /\ UNCHANGED <<d_cache, d_clock, d_ticks, d_new, d_fetched>>
    /\ UNCHANGED notVersion

\* Line 679: fetched_at of the cache is read and compared.
VersionAge(c) ==
    /\ d_pc[c] = "age"
    /\ d_seen' = [d_seen EXCEPT ![c].fetched_at = d_cache.fetched_at]
    /\ d_pc' = [d_pc EXCEPT ![c] =
                   IF Fresh(d_seen[c].version, d_cache.fetched_at, d_now[c])
                   THEN "cached" ELSE "fetch"]
    /\ UNCHANGED <<d_cache, d_clock, d_ticks, d_now, d_new, d_ret, d_fetched>>
    /\ UNCHANGED notVersion

\* Line 681: the version in the cache is returned.
ReturnCached(c) ==
    /\ d_pc[c] = "cached"
    /\ d_ret' = [d_ret EXCEPT ![c] = [value |-> d_cache.version,
                                      request |-> FALSE, failed |-> FALSE]]
    /\ d_pc' = [d_pc EXCEPT ![c] = "idle"]
    /\ UNCHANGED <<d_cache, d_clock, d_ticks, d_now, d_seen, d_new, d_fetched>>
    /\ UNCHANGED notVersion

\* Lines 683-687: the request is answered with a list of versions, the
\* first of which is taken.
FetchVersion(c) ==
    /\ d_pc[c] = "fetch"
    /\ \E v \in Versions : d_new' = [d_new EXCEPT ![c] = v]
    /\ d_pc' = [d_pc EXCEPT ![c] = "store"]
    /\ UNCHANGED <<d_cache, d_clock, d_ticks, d_now, d_seen, d_ret, d_fetched>>
    /\ UNCHANGED notVersion

\* Lines 683-687 and 691-692: the request, raise_for_status or the reading
\* of the answer raises; the version in the cache is returned, or the
\* built-in one.
FetchVersionFails(c) ==
    /\ d_pc[c] = "fetch"
    /\ d_ret' = [d_ret EXCEPT ![c] =
                    [value |-> IF d_cache.version # None THEN d_cache.version
                               ELSE DefaultVersion,
                     request |-> TRUE, failed |-> TRUE]]
    /\ d_pc' = [d_pc EXCEPT ![c] = "idle"]
    /\ UNCHANGED <<d_cache, d_clock, d_ticks, d_now, d_seen, d_new, d_fetched>>
    /\ UNCHANGED notVersion

\* Line 688: the version is stored.
StoreVersion(c) ==
    /\ d_pc[c] = "store"
    /\ d_cache' = [d_cache EXCEPT !.version = d_new[c]]
    /\ d_fetched' = d_fetched \cup {d_new[c]}
    /\ d_pc' = [d_pc EXCEPT ![c] = "stamp"]
    /\ UNCHANGED <<d_clock, d_ticks, d_now, d_seen, d_new, d_ret>>
    /\ UNCHANGED notVersion

\* Lines 689-690: the time read at line 676 is stored as fetched_at and the
\* version is returned.
StoreFetchedAt(c) ==
    /\ d_pc[c] = "stamp"
    /\ d_cache' = [d_cache EXCEPT !.fetched_at = d_now[c]]
    /\ d_ret' = [d_ret EXCEPT ![c] = [value |-> d_new[c], request |-> TRUE,
                                      failed |-> FALSE]]
    /\ d_pc' = [d_pc EXCEPT ![c] = "idle"]
    /\ UNCHANGED <<d_clock, d_ticks, d_now, d_seen, d_new, d_fetched>>
    /\ UNCHANGED notVersion

\* The cache of line 24, and threads that call get_ddragon_version again
\* and again while the clock, more than a day past 0, moves on.
VersionInit ==
    /\ ScrapeIdle
    /\ FetchIdle
    /\ LibIdle
    /\ JobIdle
    /\ LockIdle
    /\ RosterIdle
    /\ d_cache = [version |-> None, fetched_at |-> 0]
    /\ d_clock = TTL
    /\ d_ticks = 0
    /\ d_pc = [c \in Handlers |-> "idle"]
    /\ d_now = [c \in Handlers |-> 0]
    /\ d_seen = [c \in Handlers |-> [version |-> None, fetched_at |-> 0]]
    /\ d_new = [c \in Handlers |-> None]
    /\ d_ret = [c \in Handlers |-> NoReturn]
    /\ d_fetched = {}

VersionNext ==
    \/ Tick
    \/ \E c \in Handlers :
           \/ VersionCall(c)
           \/ VersionAge(c)
           \/ ReturnCached(c)
           \/ FetchVersion(c)
           \/ FetchVersionFails(c)
           \/ StoreVersion(c)
           \/ StoreFetchedAt(c)

VersionSpec == VersionInit /\ [][VersionNext]_vars

(***************************************************************************)
(* Properties of scrape_player                                             *)
(***************************************************************************)

\* scrape_player has returned or raised.
Terminated == pc \in {"done", "raised"}

\* result() on a's future raised: the adapter raised, or ran past the timeout.
Failed(a) ==
    \/ a \in timedout
    \/ fut[a].state = "finished" /\ fut[a].result = "exception"

\* result() on a's future returned the adapter's value.
Succeeded(a) ==
    a \notin timedout /\ fut[a].state = "finished" /\ fut[a].result = "value"

\* The entries scrape_player writes for an adapter's failure.  It has none for
\* role inference.
EntriesOf(a) ==
    CASE a = "tier" -> {"Tier fetch failed: " \o BlockedText}
      [] a = "history" -> {"Season history failed: " \o ExhaustedText,
                           "Season history failed: "}
      [] a = "champs" -> {"Champions fetch failed: " \o ExhaustedText,
                          "Champions fetch failed: "}
      [] a = "mastery" -> {"Masteries failed: " \o ExhaustedText,
                           "Masteries failed: "}
      [] a = "roles" -> {}

HasEntry(a) == \E i \in 1..Len(errors) : errors[i] \in EntriesOf(a)

\* The adapters whose failure scrape_player writes down.
Logged == {"history", "champs", "mastery"}

TierFieldsAre(t) ==
    stats.tier = t.tier /\ stats.division = t.division /\ stats.lp = t.lp

HistoryFieldsAre(prev, peak, has, hist) ==
    /\ stats.previous_season_tier = prev
    /\ stats.peak_tier = peak
    /\ stats.has_season_history = has
    /\ stats.season_history = hist

ChampionFieldsAre(games, wins, losses, winrate, champions) ==
    /\ stats.season_games = games
    /\ stats.season_wins = wins
    /\ stats.season_losses = losses
    /\ stats.season_winrate = winrate
    /\ stats.champions = champions

TierDefault == TierFieldsAre([tier |-> "UNRANKED", division |-> NoDivision, lp |-> 0])
HistoryDefault == HistoryFieldsAre(None, None, FALSE, <<>>)
ChampionsDefault == ChampionFieldsAre(0, 0, 0, 0, <<>>)
MasteryDefault == stats.masteries = <<>>

\* C1: whatever the five adapters do (return, raise ScrapeError, time out,
\* raise anything else), scrape_player returns a snapshot: it never ends by
\* raising.
C1_NeverPropagates == pc # "raised"

\* The number of adapters, of all five, that were made to fail.
ForcedFailures ==
    Cardinality({a \in Workers : outcome[a] # "ok"})
        + (IF tier_outcome # "ok" THEN 1 ELSE 0)

LoggedFailures ==
    Cardinality({a \in Logged : outcome[a] # "ok"})
        + (IF tier_outcome = "scrape_error" THEN 1 ELSE 0)

C3_AllFailedDefaults ==
    (Terminated /\ tier_outcome # "ok" /\ \A a \in Workers : Failed(a)) =>
        /\ pc = "done"
        /\ TierDefault /\ HistoryDefault /\ ChampionsDefault /\ MasteryDefault
        /\ stats.scrape_error # None

C3_Witness ==
    /\ pc = "done"
    /\ tier_outcome = "scrape_error"
    /\ \A a \in Workers : Failed(a)
    /\ Len(errors) = 4

\* The identity every pool adapter has to be called with.
ExpectedName ==
    IF tier_outcome = "ok" /\ tier_out.resolved_name # None
    THEN tier_out.resolved_name ELSE game_name

ExpectedTag ==
    IF tier_outcome = "ok" /\ tier_out.resolved_tag # None
    THEN tier_out.resolved_tag ELSE tag_line

\* C4: no pool adapter is submitted before identity resolution has finished,
\* and each one is called with the resolved name and tag when resolution
\* returned them, else with the user-supplied ones.
C4_IdentityGates ==
    \A a \in Workers :
        fut[a].state # "none" =>
            /\ pc \notin {"tier", "raised"}
            /\ fut[a].name = ExpectedName
            /\ fut[a].tag = ExpectedTag

C4_Witness ==
    /\ tag_line = "NA1"
    /\ \A a \in Workers : fut[a].state = "running" /\ fut[a].tag = "T1"
                            /\ fut[a].name = "Faker"

\* C5: in the returned snapshot every adapter that succeeded has its fields
\* set to its output and every adapter that failed has its fields at their
\* defaults, whatever its siblings did; every sibling was run to its end.
C5_SiblingsKept ==
    pc = "done" =>
        /\ \A a \in Workers : fut[a].state = "finished"
        /\ IF tier_outcome = "ok" THEN TierFieldsAre(tier_out) ELSE TierDefault
        /\ Succeeded("history") =>
              HistoryFieldsAre(HistoryResult.previous_season_tier,
                               HistoryResult.peak_tier, TRUE,
                               HistoryResult.season_history)
        /\ Failed("history") => HistoryDefault
        /\ Succeeded("champs") =>
              ChampionFieldsAre(ChampionsValue.season_games,
                                ChampionsValue.season_wins,
                                ChampionsValue.season_losses,
                                ChampionsValue.season_winrate,
                                ChampionsValue.champions)
        /\ Failed("champs") => ChampionsDefault
        /\ Succeeded("mastery") => stats.masteries = MasteryResult
        /\ Failed("mastery") => MasteryDefault

C5_Witness ==
    /\ pc = "done"
    /\ Failed("history") /\ outcome["history"] = "error"
    /\ Failed("roles")
    /\ Succeeded("champs") /\ Len(stats.champions) = 3
    /\ Succeeded("mastery") /\ stats.masteries = MasteryResult

\* The snapshot as a function of what the adapters do, with no reference to
\* the order in which they finish.
ExpectedErrors ==
    (IF tier_outcome = "scrape_error"
        THEN <<"Tier fetch failed: " \o BlockedText>> ELSE <<>>)
    \o (IF outcome["history"] = "error"
        THEN <<"Season history failed: " \o ExhaustedText>>
        ELSE IF outcome["history"] = "timeout"
        THEN <<"Season history failed: ">> ELSE <<>>)
    \o (IF outcome["champs"] = "error"
        THEN <<"Champions fetch failed: " \o ExhaustedText>>
        ELSE IF outcome["champs"] = "timeout"
        THEN <<"Champions fetch failed: ">> ELSE <<>>)
    \o (IF outcome["mastery"] = "error"
        THEN <<"Masteries failed: " \o ExhaustedText>>
        ELSE IF outcome["mastery"] = "timeout"
        THEN <<"Masteries failed: ">> ELSE <<>>)

ExpectedChampions ==
    ScrapeChampions(ChampionsHeader, ChampionsPage,
                    IF outcome["roles"] = "ok" THEN roles_out ELSE <<>>,
                    static_roles)

ExpectedStats ==
    LET tierOk == tier_outcome = "ok"
        histOk == outcome["history"] = "ok"
        champOk == outcome["champs"] = "ok"
    IN  [tier |-> IF tierOk THEN tier_out.tier ELSE "UNRANKED",
         division |-> IF tierOk THEN tier_out.division ELSE NoDivision,
         lp |-> IF tierOk THEN tier_out.lp ELSE 0,
         previous_season_tier |->
             IF histOk THEN HistoryResult.previous_season_tier ELSE None,
         peak_tier |-> IF histOk THEN HistoryResult.peak_tier ELSE None,
         has_season_history |-> histOk,
         season_history |-> IF histOk THEN HistoryResult.season_history ELSE <<>>,
         season_games |-> IF champOk THEN ExpectedChampions.season_games ELSE 0,
         season_wins |-> IF champOk THEN ExpectedChampions.season_wins ELSE 0,
         season_losses |-> IF champOk THEN ExpectedChampions.season_losses ELSE 0,
         season_winrate |-> IF champOk THEN ExpectedChampions.season_winrate ELSE 0,
         champions |-> IF champOk THEN ExpectedChampions.champions ELSE <<>>,
         masteries |-> IF outcome["mastery"] = "ok" THEN MasteryResult ELSE <<>>,
         opgg_url |-> OpggUrl(ExpectedName, ExpectedTag),
         scrape_error |-> IF ExpectedErrors = <<>> THEN None
                          ELSE Join(ExpectedErrors, "; ")]

\* C6: for fixed adapter outcomes the returned snapshot, every data field and
\* the scrape_error entries in their order, is one and the same in every
\* interleaving of the pool adapters.
C6_OrderIndependent ==
    pc = "done" => stats = ExpectedStats /\ errors = ExpectedErrors

C6_Witness ==
    /\ pc = "done"
    /\ outcome = [a \in Workers |-> IF a = "history" THEN "error" ELSE "ok"]
    /\ stats.masteries # <<>> /\ stats.champions # <<>>
    /\ Len(errors) = 1

MerakiRole(name) ==
    CASE name = "Ahri" -> "Mid/Top"
      [] name = "Jinx" -> "Bot"
      [] OTHER -> ""

\* C8: once role inference has failed or timed out, the champion-stats
\* adapter is still dispatched, with an empty role map, and the role of each
\* champion in the returned snapshot is the static table's, empty when the
\* table has no entry for the champion.
C8_RoleFallback ==
    Failed("roles") =>
        /\ pc # "raised"
        /\ pc \in {"wait_history", "wait_champs", "wait_mastery", "shutdown",
                   "return", "done"} =>
              fut["champs"].state # "none" /\ fut["champs"].role_map = <<>>
        /\ pc = "done" =>
              \A i \in 1..Len(stats.champions) :
                  stats.champions[i].role =
                      IF static_roles = <<>> THEN ""
                      ELSE MerakiRole(stats.champions[i].champion_name)

C8_Witness ==
    /\ pc = "done"
    /\ "roles" \in timedout
    /\ roles_out # <<>>
    /\ static_roles # <<>>
    /\ Len(stats.champions) = 3
    /\ stats.champions[1].role = "Bot"
    /\ stats.champions[2].role = "Mid/Top"
    /\ stats.champions[3].role = ""

(***************************************************************************)
(* Properties of _fetch                                                    *)
(***************************************************************************)

FetchDone == f_pc \in {"returned", "raised"}

\* C9: whatever the responses are, a call of _fetch makes at least one and at
\* most 3 requests and then ends, returning a body or raising ScrapeError.
C9_BoundedRequests ==
    /\ [](Len(f_log) <= 3)
    /\ [](FetchDone =>
            /\ Len(f_log) >= 1
            /\ \/ f_pc = "returned" /\ f_result.kind = "body"
               \/ f_pc = "raised" /\ f_result.kind \in {"blocked", "failed"})
    /\ <>FetchDone

C9_Witness ==
    /\ f_pc = "raised"
    /\ f_result.kind = "failed"
    /\ f_log = <<"429", "transport", "4xx5xx">>

\* C10: a 403 ends _fetch at once with the blocked error: the 403 is the last
\* request, nothing is slept after it, and the error is not the generic
\* "failed after N attempts" one.
C10_BlockedImmediately ==
    (\E i \in 1..Len(f_log) : f_log[i] = "403") =>
        /\ f_log[Len(f_log)] = "403"
        /\ \A i \in 1..(Len(f_log) - 1) : f_log[i] # "403"
        /\ f_pc = "raised"
        /\ f_result.kind = "blocked"
        /\ Len(f_slept) = Len(f_log) - 1
        /\ f_attempt = Len(f_log) - 1

C10_Witness ==
    /\ f_log = <<"429", "403">>
    /\ f_pc = "raised"
    /\ f_result.kind = "blocked"
    /\ f_slept = <<1>>

\* The responses of a call that are over: the call has moved past them.
Past(i) == i < Len(f_log) \/ (i = Len(f_log) /\ f_pc # "sleep")

\* C11: every 429 takes one of the 3 attempts (the i-th response is the
\* i-th attempt, and there are at most 3) and is followed by a sleep of the
\* i-th delay before anything else happens; the generic error comes only
\* after 3 attempts, with no error recorded when all of them were 429; and a
\* 2xx after a 429 ends the call with the body of that response.
C11_RateLimited ==
    /\ Len(f_log) <= 3
    /\ f_pc = "request" => f_attempt = Len(f_log)
    /\ \A i \in 1..Len(f_log) :
          f_log[i] = "429" =>
             /\ i = Len(f_log) /\ ~Past(i) => f_attempt = i - 1 /\ f_delay = RETRY_DELAYS[i]
             /\ Past(i) => Len(f_slept) >= i /\ f_slept[i] = RETRY_DELAYS[i]
             /\ f_result.kind = "failed" => Len(f_log) = 3
             /\ \A j \in (i + 1)..Len(f_log) :
                   f_log[j] = "2xx" =>
                      /\ f_pc = "returned"
                      /\ f_result = [kind |-> "body", from |-> j, error |-> None]
    /\ (f_pc = "raised" /\ \A i \in 1..Len(f_log) : f_log[i] = "429") =>
          /\ f_log = <<"429", "429", "429">>
          /\ f_slept = <<1, 2, 4>>
          /\ f_result = [kind |-> "failed", from |-> 0, error |-> None]

C11_Witness ==
    /\ f_log = <<"429", "429", "2xx">>
    /\ f_slept = <<1, 2>>
    /\ f_pc = "returned"
    /\ f_result.from = 3

\* The failures _fetch retries, as the claim lists them and as the code has
\* them: raise_for_status raises for 4xx and 5xx only.
NonSuccess == {"3xx", "4xx5xx", "transport"}
Retried == {"4xx5xx", "transport"}

\* The statement of C12 for a set of failures: such a response, when an
\* attempt is left, is followed by a sleep of the i-th delay and then by the
\* next attempt; it is never the response whose body is returned; the generic
\* error comes only after 3 attempts of which none was answered 2xx; and a
\* 2xx ends the call with its body, so it is the first one.
RetriedThenFailed(failures) ==
    /\ \A i \in 1..Len(f_log) :
          f_log[i] \in failures =>
             /\ ~(f_pc = "returned" /\ f_result.from = i)
             /\ (i < MAX_RETRIES /\ Past(i)) =>
                   /\ Len(f_slept) >= i /\ f_slept[i] = RETRY_DELAYS[i]
                   /\ Len(f_log) > i \/ (f_pc = "request" /\ f_attempt = i)
    /\ f_result.kind = "failed" =>
          /\ Len(f_log) = MAX_RETRIES
          /\ \A i \in 1..Len(f_log) : f_log[i] \in failures \cup {"429"}
    /\ \A i \in 1..Len(f_log) :
          f_log[i] = "2xx" =>
             /\ i = Len(f_log)
             /\ f_pc = "returned"
             /\ f_result = [kind |-> "body", from |-> i, error |-> None]

\* C12 as stated: every non-2xx status other than 403 and 429 is retried.
C12_NonSuccessRetried == RetriedThenFailed(NonSuccess)

\* C12: a transport-level error or a 4xx/5xx status other than 403 and 429 is
\* retried after a sleep while an attempt is left, the generic error is raised
\* only after 3 failed attempts, and a 2xx ends the call with the body of that
\* (first) response; a 3xx status is not retried, its body is returned.
C12_ErrorsRetried ==
    /\ RetriedThenFailed(Retried)
    /\ \A i \in 1..Len(f_log) :
          f_log[i] = "3xx" =>
             /\ i = Len(f_log)
             /\ f_pc = "returned"
             /\ f_result = [kind |-> "body", from |-> i, error |-> None]

C12_Witness ==
    /\ f_log = <<"transport", "4xx5xx", "2xx">>
    /\ f_slept = <<1, 2>>
    /\ f_pc = "returned"
    /\ f_result.from = 3

(***************************************************************************)
(* Properties of _extract_json_object_at                                   *)
(***************************************************************************)

\* What the text says by itself, position by position from start: a
\* character is escaped when an unescaped backslash stands before it; a
\* position is inside a string literal when an odd number of unescaped
\* quotes stand before it; the nesting depth after position j counts the
\* unescaped braces outside string literals up to j.
RECURSIVE Escaped(_, _, _)
Escaped(text, start, j) ==
    /\ j > start
    /\ At(text, j - 1) = "\\"
    /\ ~Escaped(text, start, j - 1)

InLiteral(text, start, j) ==
    Cardinality({k \in start..(j - 1) :
                    At(text, k) = "\"" /\ ~Escaped(text, start, k)}) % 2 = 1

Counted(text, start, k, ch) ==
    /\ At(text, k) = ch
    /\ ~Escaped(text, start, k)
    /\ ~InLiteral(text, start, k)

NestingAfter(text, start, j) ==
    Cardinality({k \in start..j : Counted(text, start, k, "{")})
        - Cardinality({k \in start..j : Counted(text, start, k, "}")})

Closings(text, start) ==
    {j \in start..(Len(text) - 1) :
        Counted(text, start, j, "}") /\ NestingAfter(text, start, j) = 0}

FirstClosing(text, start) ==
    CHOOSE j \in Closings(text, start) : \A k \in Closings(text, start) : j <= k

\* One loop iteration looks at the character at x_i.
Looked == x_pc = "scan" /\ x_i < Len(x_text) /\ (x_i' = x_i + 1 \/ x_pc' = "done")

\* C14, the steps: depth changes by one, and only at a brace that is neither
\* escaped nor inside a string literal; the character after a backslash is
\* skipped, leaving depth and in_string alone, and only it; in_string toggles
\* only at an unescaped quote.
C14_Steps ==
    Looked =>
        /\ x_depth' # x_depth =>
              /\ ~x_escape /\ ~x_in_string
              /\ \/ At(x_text, x_i) = "{" /\ x_depth' = x_depth + 1
                 \/ At(x_text, x_i) = "}" /\ x_depth' = x_depth - 1
        /\ x_in_string => x_depth' = x_depth
        /\ x_escape => x_depth' = x_depth /\ x_in_string' = x_in_string /\ ~x_escape'
        /\ x_escape' <=> (~x_escape /\ At(x_text, x_i) = "\\")
        /\ (x_in_string' # x_in_string) <=> (~x_escape /\ At(x_text, x_i) = "\"")

\* C14, the states: while scanning, the locals are what the text says up to
\* x_i; at the end json.loads got the span from start to the first position
\* where the nesting depth is back at zero, and nothing when there is none.
C14_States ==
    /\ x_pc = "scan" =>
          /\ x_escape = Escaped(x_text, x_start, x_i)
          /\ x_i < Len(x_text) => x_in_string = InLiteral(x_text, x_start, x_i)
          /\ x_depth = NestingAfter(x_text, x_start, x_i - 1)
          /\ \A j \in x_start..(x_i - 1) : NestingAfter(x_text, x_start, j) > 0
                                           \/ Escaped(x_text, x_start, j)
                                           \/ InLiteral(x_text, x_start, j)
                                           \/ At(x_text, j) # "}"
    /\ (x_pc = "done" /\ ~NoObjectAt(x_text, x_start)) =>
          IF Closings(x_text, x_start) = {}
          THEN x_result = [value |-> None, span |-> <<>>]
          ELSE /\ x_result.span = <<x_start, FirstClosing(x_text, x_start)>>
               /\ x_result.value =
                     JsonLoads(Slice(x_text, x_start, FirstClosing(x_text, x_start) + 1))

\* C14: in the balanced scan of _extract_json_object_at the nesting depth
\* changes only on braces outside string literals, a backslash makes exactly
\* the one following character be skipped without toggling the in-string
\* state, and the scan stops at the first position where depth returns to
\* zero, decoding only the span from the opening brace to that position.
C14_BalancedScan == []C14_States /\ [][C14_Steps]_vars

\* A brace inside a string literal and an escaped quote were passed, and the
\* scan ended at the closing brace.
C14_Witness ==
    /\ x_text = <<"{", "\"", "\\", "\"", "\"", "}">>
    /\ x_start = 0
    /\ x_pc = "done"
    /\ x_result.span = <<0, 5>>

(***************************************************************************)
(* Properties of the adapters on a page                                    *)
(***************************************************************************)

PageDone(adapter) == p_pc = "done" /\ p_result.adapter = adapter

\* The page embeds its array, quotes escaped, after the anchor of the
\* adapter that was called (the anchor of scrape_masteries ends in "[{").
EmbeddedFor(adapter) ==
    \/ adapter = "masteries" /\ p_key = MasteriesKey /\ p_array[1].t = "obj"
    \/ adapter = "champions" /\ p_key = StatsKey

\* C13: for an array embedded after its anchor with escaped quotes, both
\* extractors cut out exactly the span of the array and decode it to the
\* array, whatever its strings hold and whatever text surrounds it.
C13_RoundTrip ==
    \A adapter \in {"masteries", "champions"} :
        (PageDone(adapter) /\ EmbeddedFor(adapter)) =>
            /\ p_result.span = <<p_at, p_at + Len(Embedded(p_key, p_array)) - 1>>
            /\ p_result.decoded.ok
            /\ p_result.decoded.v = Arr(p_array)

\* What a page holds, read off the page: the anchor of scrape_masteries, the
\* word my_champion_stats, the anchor of scrape_champions, the header.
HasMasteriesAnchor ==
    \E p \in 1..Len(p_html) :
        \E key \in {MasteriesKey, MasteriesKeyPlain} : KeyAt(p_html, p, key, TRUE)

HasStatsWord ==
    \E p \in 1..Len(p_html) : p_html[p] \in {StatsKey, StatsKeyPlain, StatsWord}

HasStatsAnchor ==
    \E p \in 1..Len(p_html) :
        \E key \in {StatsKey, StatsKeyPlain} : KeyAt(p_html, p, key, FALSE)

HasHeader == \E p \in 1..Len(p_html) : p_html[p] = HeaderText

\* No search that succeeded gave a page with the data array.
NoDataArray ==
    /\ t_pc # "idle"
    /\ t_primary = "nodata"
    /\ t_tag = "" \/ t_fallback # "data"

MasteriesNoData ==
    (PageDone("masteries") /\ ~HasMasteriesAnchor) =>
        p_result.kind = "returned" /\ p_result.value = <<>>

TierNoData ==
    NoDataArray => /\ t_pc # "raised"
                   /\ t_pc = "returned" => t_result = UnrankedResult

\* C15 as stated: without the anchor of its array scrape_champions returns
\* zero season counts and no champions, as the other two adapters return
\* their "no data".
C15_NoAnchorNoData ==
    /\ MasteriesNoData
    /\ TierNoData
    /\ (PageDone("champions") /\ ~HasStatsAnchor) =>
          p_result.kind = "returned" /\ p_result.value = ChampionsDefaults

\* C15: when the anchor is absent from the fetched page no adapter raises;
\* scrape_masteries returns the empty list, scrape_tier_from_multisearch the
\* UNRANKED defaults, and scrape_champions no champions, with zero season
\* counts when the word my_champion_stats is absent and with the totals of
\* the header, if there is one, when only the array after the word is.
C15_NoAnchorNoChampions ==
    /\ MasteriesNoData
    /\ TierNoData
    /\ (PageDone("champions") /\ ~HasStatsAnchor) =>
          /\ p_result.kind = "returned"
          /\ p_result.value.champions = <<>>
          /\ ~HasStatsWord => p_result.value = ChampionsDefaults
          /\ HasStatsWord =>
                /\ p_result.value.season_games = (IF HasHeader THEN 34 ELSE 0)
                /\ p_result.value.season_wins = (IF HasHeader THEN 19 ELSE 0)
                /\ p_result.value.season_losses = (IF HasHeader THEN 15 ELSE 0)
                /\ p_result.value.season_winrate = (IF HasHeader THEN 559 ELSE 0)

\* The page has the season header but not the word; nothing is returned.
C15_Witness ==
    /\ PageDone("champions")
    /\ HasHeader
    /\ ~HasStatsWord
    /\ p_result.kind = "returned"
    /\ p_result.value = ChampionsDefaults

\* The objects of the embedded array from which the adapter builds a record.
WellFormed(adapter) ==
    {k \in 1..Len(p_array) :
        /\ p_array[k].t = "obj"
        /\ adapter = "champions" =>
              /\ "play" \in DOMAIN EntryOf(p_array[k].o)
              /\ EntryOf(p_array[k].o).champion_id # 0
              /\ ~NonNumeric(p_array[k].o)}

Ids(records) == {records[k].champion_id : k \in 1..Len(records)}

\* C16: neither adapter raises, whatever the span decodes to or fails to,
\* and when the array is decoded the records of its well-formed elements are
\* returned whatever its other elements are.
C16_NeverThrows ==
    \A adapter \in {"masteries", "champions"} :
        PageDone(adapter) =>
            /\ p_result.kind = "returned"
            /\ (p_result.decoded.ok /\ p_result.decoded.v = Arr(p_array)) =>
                  \A k \in WellFormed(adapter) :
                      EntryOf(p_array[k].o).champion_id \in
                          Ids(IF adapter = "masteries" THEN p_result.value
                              ELSE p_result.value.champions)

\* C17 as stated: with games > 0 a missing or zero source rate gives
\* wins/games*100 rounded to one decimal, and any other source rate is the
\* record's rate.
C17_WinrateKept ==
    (e_pc = "appended" /\ e_record.games > 0) =>
        IF Get(e_entry, "win_rate", 0) = 0
        THEN 2 * (e_record.winrate * e_record.games - 1000 * e_record.wins) \in
                 (0 - e_record.games)..e_record.games
        ELSE 10 * e_record.winrate = e_entry.win_rate

\* C17: with games > 0 a missing or zero source rate gives wins/games*100
\* rounded to one decimal (the tenth nearest to it), and any other source
\* rate is kept rounded to one decimal.
C17_WinrateRounded ==
    (e_pc = "appended" /\ e_record.games > 0) =>
        IF Get(e_entry, "win_rate", 0) = 0
        THEN 2 * (e_record.winrate * e_record.games - 1000 * e_record.wins) \in
                 (0 - e_record.games)..e_record.games
        ELSE (10 * e_record.winrate - e_entry.win_rate) \in -5..5

C17_Witness ==
    /\ e_pc = "appended"
    /\ "win_rate" \notin DOMAIN e_entry
    /\ e_record.games = 3
    /\ e_record.wins = 2
    /\ e_record.winrate = 667

\* C18: every record scrape_champions builds has wins + losses <= games.
C18_WinsLossesWithinGames ==
    e_pc = "appended" => e_record.wins + e_record.losses <= e_record.games

\* The champions of the snapshot into which lines 617-621 of scrape_player
\* merge what scrape_champions returned.
SnapshotChampions == MergeChampions(DefaultStats, p_result.value).champions

\* C19: the champions of the snapshot are ordered by games, most first, and
\* the aggregate entry (champion id 0) is not among them.
C19_SortedNoAggregate ==
    (PageDone("champions") /\ p_result.kind = "returned") =>
        /\ \A i \in 1..Len(SnapshotChampions), j \in 1..Len(SnapshotChampions) :
              i < j => SnapshotChampions[i].games >= SnapshotChampions[j].games
        /\ \A i \in 1..Len(SnapshotChampions) : SnapshotChampions[i].champion_id # 0

\* The payload has Ahri (10 games) before Jinx (20 games).
C19_Witness ==
    /\ PageDone("champions")
    /\ p_key = StatsKey
    /\ p_array = <<Obj("ahri"), Obj("jinx")>>
    /\ p_result.kind = "returned"
    /\ Len(SnapshotChampions) = 2
    /\ SnapshotChampions[1].champion_id = 222

(***************************************************************************)
(* Properties of get_ban_recommendations                                   *)
(***************************************************************************)

\* The competitive tiers, lowest first.
Ladder ==
    <<"IRON", "BRONZE", "SILVER", "GOLD", "PLATINUM", "EMERALD", "DIAMOND",
      "MASTER", "GRANDMASTER", "CHALLENGER">>

Rung(tier) == CHOOSE k \in DOMAIN Ladder : Ladder[k] = tier

OnLadder(tier) == \E k \in DOMAIN Ladder : Ladder[k] = tier

\* The tiers of the ladder below a tier of the ladder.
Below(tier) ==
    IF OnLadder(tier)
    THEN {Ladder[k] : k \in 1..(Rung(tier) - 1)}
    ELSE {}

\* The champions the p-th player of the team scores.
ScoredBy(team, p) == {NameOf(team, pi) : pi \in {e \in Scoring(team) : e[1] = p}}

\* The score the returned list gives a champion is at least every score in
\* a set.
ReturnedAtLeast(name, scores) ==
    \A j \in DOMAIN b_result :
        b_result[j].champion_name = name =>
            \A r \in scores : b_result[j].score >= r

\* C20: a player of a higher tier, with the same stat line and the rest of
\* the team the same, never gives a champion of theirs a lower ban score
\* than a player of a lower tier: neither the player's own contribution,
\* nor the champion's accumulated score, nor its rounded score in the list
\* returned.
C20_TierMonotone ==
    b_pc = "done" =>
        \A p \in DOMAIN b_team :
            LET own == {pi \in Scoring(b_team) : pi[1] = p}
                score == [pi \in own |-> ChampScore(b_team[p], pi[2])]
                total == [n \in ScoredBy(b_team, p) |-> TotalScore(b_team, n)]
            IN  \A lower \in Below(b_team[p].tier) :
                    LET other == [b_team EXCEPT ![p].tier = lower]
                    IN  /\ own \subseteq Scoring(other)
                        /\ \A pi \in own :
                               score[pi] >= ChampScore(other[p], pi[2])
                        /\ \A n \in DOMAIN total :
                               LET low == TotalScore(other, n)
                               IN  /\ total[n] >= low
                                   /\ ReturnedAtLeast(n, Tenths(low))

\* A CHALLENGER one-trick of Ahri with the mastery bonus, next to the GOLD
\* player, has been scored: Ahri leads the list returned.
C20_Witness ==
    /\ b_pc = "done"
    /\ Len(b_team) = 2
    /\ b_team[1].tier = "CHALLENGER"
    /\ b_team[1].role = "mid"
    /\ b_team[1].champions =
           <<[champion_name |-> "Ahri", games |-> 20, role |-> Roles["Ahri"]],
             [champion_name |-> "Jinx", games |-> 3, role |-> Roles["Jinx"]]>>
    /\ b_team[1].masteries = <<[champion_name |-> "Ahri", points |-> 10000]>>
    /\ b_team[2].has_stats
    /\ b_num_bans = 1
    /\ Len(b_result) = 2
    /\ b_result[1].champion_name = "Ahri"
    /\ b_result[1].players = {"one", "two"}
    /\ b_result[1].score > 0


\* What a player adds to the score of a champion: the score of the one entry
\* of that name (the lists of the model hold a name once) among the first
\* ten, if it has 3 games or more and the player has stats.
Contribution(player, name) ==
    LET at == {i \in 1..Min(10, Len(player.champions)) :
                  /\ player.champions[i].champion_name = name
                  /\ player.champions[i].games >= 3}
    IN  IF player.has_stats /\ at # {}
        THEN ChampScore(player, CHOOSE i \in at : TRUE)
        ELSE 0

RECURSIVE Contributions(_, _)
Contributions(team, name) ==
    IF team = <<>> THEN 0
    ELSE Contribution(Head(team), name) + Contributions(Tail(team), name)

\* The team without its k-th player.
Without(team, k) == SubSeq(team, 1, k - 1) \o SubSeq(team, k + 1, Len(team))

\* C21: the score of every scored champion is the sum of what the players
\* of the team add to it, rounded; its players are the names of those who
\* add to it; and with a player who adds to it the score is not lower than
\* without that player.
C21_ScoresAccumulate ==
    b_pc = "done" =>
        \A j \in DOMAIN b_scored :
            LET name == b_scored[j].champion_name
                sum == Contributions(b_team, name)
                adding == {k \in DOMAIN b_team : Contribution(b_team[k], name) > 0}
            IN  /\ b_scored[j].score \in Tenths(sum)
                /\ b_scored[j].players = {b_team[k].game_name : k \in adding}
                /\ adding # {}
                /\ \A k \in adding :
                       LET without == Contributions(Without(b_team, k), name)
                       IN  /\ sum >= without
                           /\ \A r \in Tenths(without) : b_scored[j].score >= r

\* Two GOLD players have both scored Ahri: the score returned is above what
\* the second player adds alone.
C21_Witness ==
    /\ b_pc = "done"
    /\ Len(b_team) = 2
    /\ b_team[1].tier = "GOLD"
    /\ b_team[1].champions =
           <<[champion_name |-> "Jinx", games |-> 3, role |-> Roles["Jinx"]],
             [champion_name |-> "Ahri", games |-> 10, role |-> Roles["Ahri"]]>>
    /\ b_team[1].masteries = <<>>
    /\ \E j \in DOMAIN b_result :
           /\ b_result[j].champion_name = "Ahri"
           /\ b_result[j].players = {"one", "two"}
           /\ b_result[j].score > 396


\* The names of a list of results.
NamesOf(results) == {results[j].champion_name : j \in DOMAIN results}

\* C22: the list returned is the sorted list of all scored champions cut
\* to its first min(2n, number of scored champions) entries; scores do not
\* rise along the sorted list, which holds every scored champion once; so
\* no champion left out has a higher score than one returned.
C22_SortedTruncated ==
    b_pc = "done" =>
        /\ NamesOf(b_scored) = ScoredNames(b_team)
        /\ Len(b_scored) = Cardinality(NamesOf(b_scored))
        /\ \A j, k \in DOMAIN b_scored :
               j < k => b_scored[j].score >= b_scored[k].score
        /\ Len(b_result) = Min(2 * b_num_bans, Len(b_scored))
        /\ b_result = SubSeq(b_scored, 1, Len(b_result))
        /\ \A j \in DOMAIN b_result : \A k \in DOMAIN b_scored :
               k > Len(b_result) => b_scored[k].score <= b_result[j].score

\* Three champions were scored and one ban was asked for: two are returned
\* and Jinx, with the lowest score, is left out.
C22_Witness ==
    /\ b_pc = "done"
    /\ b_num_bans = 1
    /\ Len(b_scored) = 3
    /\ Len(b_result) = 2
    /\ b_scored[3].champion_name = "Jinx"
    /\ b_scored[3].score < b_result[2].score


(***************************************************************************)
(* Properties of champ_matches_role                                        *)
(***************************************************************************)

\* The tags of a role string: its runs of pieces between slashes (or an end
\* of the string), without the blanks around them.
Tags(str) ==
    LET cuts == {k \in DOMAIN str : str[k] = "/"} \cup {0, Len(str) + 1}
        between == {ab \in cuts \X cuts :
                       /\ ab[1] < ab[2]
                       /\ \A k \in (ab[1] + 1)..(ab[2] - 1) : str[k] # "/"}
        Trimmed(run) ==
            LET inner == {k \in DOMAIN run : run[k] # " "}
            IN  IF inner = {} THEN <<>>
                ELSE SubSeq(run, CHOOSE a \in inner : \A b \in inner : a <= b,
                                 CHOOSE a \in inner : \A b \in inner : a >= b)
    IN  {Trimmed(SubSeq(str, ab[1] + 1, ab[2] - 1)) : ab \in between}

\* C23: champ_matches_role is true for an empty role string, for no player
\* role and for the role "fill"; otherwise it is true exactly when a tag of
\* the role string is in the alias set of the player's role (the role
\* itself when ROLE_ALIASES does not have it).
C23_RoleMatch ==
    r_pc = "done" =>
        r_result = IF r_str = <<>> \/ r_role = "" \/ r_role = "fill" THEN TRUE
                   ELSE \E tag \in Tags(r_str) :
                            Text(tag) \in Get(ROLE_ALIASES, r_role, {r_role})

\* "ADC/Mid" was matched with a mid player.
C23_Witness ==
    /\ r_pc = "done"
    /\ r_str = <<"ADC", "/", "Mid">>
    /\ r_role = "mid"
    /\ r_result


(***************************************************************************)
(* Properties of get_pick_recommendations and identify_one_tricks          *)
(***************************************************************************)

\* What the score of a candidate is computed from: games, mastery points,
\* the weight of the opposing tier, and the counter data.
CounterRates == {40, 47, 48, 50, 52, 53, 60}

CandidateInputs ==
    [games : {2, 5, 20, 30}, mastery_pts : {0, 10000, 100000},
     opp_tier_weight : {TIER_WEIGHTS[t] : t \in DOMAIN TIER_WEIGHTS},
     has_counter : BOOLEAN, opp_main_wr : CounterRates]

ScoreOf(in, banned) ==
    CandidateScore(in.games, in.mastery_pts, in.opp_tier_weight,
                   in.has_counter, in.opp_main_wr, banned)

\* C24: get_pick_recommendations returns its candidates, those of the
\* likely-banned set among them, and the score of a candidate in the set
\* is never higher than the score the same candidate gets outside it.
C24_BannedNeverHigher ==
    /\ k_pc = "done" => k_result.kind = "returned"
    /\ \A in \in CandidateInputs : ScoreOf(in, TRUE) <= ScoreOf(in, FALSE)

\* C25: get_pick_recommendations scores its candidates with a counter term
\* that is zero without counter data and for an advantage within 2 of
\* zero, positive for an advantage above 2, and for the advantage -a the
\* negative of the term for +a.
C25_CounterSymmetric ==
    /\ k_result.kind = "raised" => k_result.error # "ImportError"
    /\ \A in \in CandidateInputs :
           ~in.has_counter =>
               ScoreOf(in, FALSE) = ScoreOf([in EXCEPT !.opp_main_wr = 50], FALSE)
    /\ \A a \in -10..10 :
           /\ a \in -2..2 => CounterTerm(a) = 0
           /\ a > 2 => CounterTerm(a) > 0
           /\ CounterTerm(-a) = -CounterTerm(a)

\* The champions of my team a list of picks for a role may hold: those of
\* a player of that role with stats, with 2 games or more and a role string
\* that is empty or matches the role.
Pickable(role) ==
    {c.champion_name :
        c \in UNION {{player.champions[i] : i \in DOMAIN player.champions} :
                     player \in {k_my_team[p] : p \in
                                    {q \in DOMAIN k_my_team :
                                        /\ k_my_team[q].has_stats
                                        /\ k_my_team[q].role = role}}}}

\* C26: get_pick_recommendations returns, for each role of its result, at
\* most 5 picks, sorted by score, highest first, each a champion of a
\* player of that role; and there is no list for the role "fill".
C26_PickLists ==
    k_pc = "done" =>
        /\ k_result.kind = "returned"
        /\ \A role \in DOMAIN k_result.picks :
               /\ role # "fill"
               /\ Len(k_result.picks[role]) <= 5
               /\ \A i, j \in DOMAIN k_result.picks[role] :
                      i < j => k_result.picks[role][i].score
                                   >= k_result.picks[role][j].score
               /\ \A i \in DOMAIN k_result.picks[role] :
                      /\ k_result.picks[role][i].games >= 2
                      /\ k_result.picks[role][i].champion_name \in Pickable(role)

\* C27: no call of identify_one_tricks or get_pick_recommendations raises.
C27_NeverRaises ==
    /\ k_result.kind # "raised"
    /\ o_pc = "done" => Len(o_result) <= Len(o_team)

\* The tag identify_one_tricks gave a player; None when it gave none.
TagOf(name) ==
    LET at == {j \in DOMAIN o_result : o_result[j].player = name}
    IN  IF at = {} THEN None ELSE o_result[CHOOSE j \in at : TRUE].tag

\* C28: for every player with champions, get_ban_recommendations has the
\* top champion as OTP exactly when identify_one_tricks tags the player
\* OTP, as Main exactly when the tag is MAIN, and as neither exactly when
\* there is no tag.
C28_SameClassification ==
    o_pc = "done" =>
        \A p \in DOMAIN o_team :
            (o_team[p].has_stats /\ o_team[p].champions # <<>>) =>
                LET tags == OtpMain(o_team[p].champions)
                    tag == TagOf(o_team[p].game_name)
                IN  /\ tags.otp_name # None <=> tag = "OTP"
                    /\ tags.main_name # None <=> tag = "MAIN"


(***************************************************************************)
(* Properties of the roster and its snapshots                              *)
(***************************************************************************)

\* Every writer has finished.
AllWritten == \A w \in Writers : w_pc[w] = "done"

\* Writer w is the only writer of its player, a player of the roster.
WritesAlone(w) ==
    /\ w_player[w] \in PlayerIds
    /\ \A v \in Writers \ {w} : w_player[v] # w_player[w]

\* C29: once all writers have finished, the stored roster has the change
\* of every writer that was the only writer of its player.
C29_NoLostWrite ==
    AllWritten =>
        \A w \in Writers :
            WritesAlone(w) =>
                \A key \in DOMAIN w_kwargs[w] :
                    s_file[w_player[w]][key] = w_kwargs[w][key]

\* A call of a function of the Scoring Engine returns in this step.
EngineReturns ==
    \/ b_pc = "call" /\ b_pc' = "done"
    \/ o_pc = "call" /\ o_pc' = "done"
    \/ k_pc = "call" /\ k_pc' = "done"

\* Writer w, having loaded its player, hands it a snapshot in this step.
Refreshes(w) ==
    /\ w_pc[w] = "loaded" /\ w_pc'[w] = "done"
    /\ "stats" \in DOMAIN w_kwargs[w]
    /\ w_player[w] \in DOMAIN w_data[w]

\* C30: a call of get_ban_recommendations, get_pick_recommendations or
\* identify_one_tricks leaves its teams as they were, and a refresh leaves
\* the player with the snapshot it was handed and nothing of the old one,
\* in the writer's roster and in the file.
C30_SnapshotsImmutable ==
    [][/\ EngineReturns =>
              /\ b_team' = b_team
              /\ o_team' = o_team
              /\ k_my_team' = k_my_team /\ k_opp_team' = k_opp_team
       /\ \A w \in Writers :
              Refreshes(w) =>
                  /\ w_data'[w][w_player[w]].stats = w_kwargs[w].stats
                  /\ s_file'[w_player[w]].stats = w_kwargs[w].stats]_vars

\* A refresh has replaced a snapshot that had a field the new one lacks.
C30_Witness ==
    \E w \in Writers :
           /\ w_pc[w] = "done"
           /\ "stats" \in DOMAIN w_kwargs[w]
           /\ w_player[w] \in PlayerIds
           /\ "peak_tier" \in DOMAIN StoredStats
           /\ s_file[w_player[w]].stats = w_kwargs[w].stats
           /\ "peak_tier" \notin DOMAIN s_file[w_player[w]].stats


(***************************************************************************)
(* Properties of the slots of get_ban_recommendations                      *)
(***************************************************************************)

\* The team with the champions of every player in the order of their games,
\* most games first.
ByGames(team) ==
    [p \in DOMAIN team |-> [team[p] EXCEPT !.champions = SortByGames(@)]]

\* C31: the scores of get_ban_recommendations are those of the team with
\* every list of champions in the order of the games: the most-played
\* champion of a player has the slot of 1.5, the second-most-played that
\* of 1.2, in whatever order the list is stored.
C31_SlotsByGames ==
    b_pc = "done" =>
        /\ NamesOf(b_scored) = ScoredNames(ByGames(b_team))
        /\ \A j \in DOMAIN b_scored :
               b_scored[j].score \in
                   Tenths(TotalScore(ByGames(b_team), b_scored[j].champion_name))


(***************************************************************************)
(* Properties of the searches of scrape_tier_from_multisearch              *)
(***************************************************************************)

\* The search for the name alone has been made.
SearchedByName == Len(t_log) = 2 /\ t_log[2] = "faker"

\* C32: once the adapter is past its searches, the search for the name
\* alone has been made exactly when the search for name#tag gave a page
\* without the data and there is a tag; no more than the two searches are
\* made; the adapter raises only for its first search; and when the second
\* search fails it returns the defaults, with no name or tag resolved.
C32_SecondSearch ==
    /\ Len(t_log) <= 2
    /\ t_pc \in {"parse", "returned"} =>
           /\ Len(t_log) >= 1
           /\ t_log[1] = (IF t_tag # "" THEN "faker#" \o t_tag ELSE "faker")
           /\ SearchedByName <=> (t_primary = "nodata" /\ t_tag # "")
           /\ ~SearchedByName => Len(t_log) = 1
    /\ t_pc = "raised" => (t_primary = "error" /\ Len(t_log) = 1)
    /\ (t_pc = "returned" /\ SearchedByName /\ t_fallback = "error") =>
           /\ t_result = UnrankedResult
           /\ t_result.resolved_name = None /\ t_result.resolved_tag = None

\* The second search failed and the adapter has returned.
C32_Witness ==
    /\ t_pc = "returned"
    /\ t_tag = "NA1"
    /\ t_primary = "nodata"
    /\ t_fallback = "error"
    /\ t_log = <<"faker#NA1", "faker">>
    /\ t_result = UnrankedResult


(***************************************************************************)
(* Properties of the order in which scrape_player starts its adapters      *)
(***************************************************************************)

\* The pool calls that a pool thread is running.
Running == {a \in Workers : fut[a].state = "running"}

\* result() on the future of role inference has returned or raised.
RolesOver == fut["roles"].state = "finished" \/ "roles" \in timedout

\* C33: scrape_champions is submitted only when result() on role inference
\* has returned, raised or timed out, and with the role map it returned,
\* the empty one when it did not return one; scrape_season_history and
\* scrape_masteries are submitted before the wait for role inference, and a
\* pool thread is free for each of them without any call having to end.
C33_ChampsAfterRoles ==
    /\ fut["champs"].state # "none" =>
           /\ RolesOver
           /\ fut["champs"].role_map =
                  (IF Succeeded("roles") THEN roles_out ELSE <<>>)
           /\ fut["history"].state # "none"
           /\ fut["mastery"].state # "none"
    /\ pc = "wait_roles" =>
           /\ fut["history"].state # "none"
           /\ fut["mastery"].state # "none"
           /\ fut["champs"].state = "none"
    /\ \A a \in {"roles", "history", "mastery"} :
           fut[a].state = "queued" => Cardinality(Running) < MaxWorkers

\* scrape_champions runs with the role map that role inference returned,
\* while the calls for the history and the masteries, started before it,
\* still run.
C33_Witness ==
    /\ fut["champs"].state = "running"
    /\ fut["champs"].role_map = roles_out
    /\ roles_out # <<>>
    /\ fut["roles"].state = "finished"
    /\ fut["history"].state = "running"
    /\ fut["mastery"].state = "running"


(***************************************************************************)
(* Properties of the refresh of a team                                     *)
(***************************************************************************)

JobTypeOK ==
    /\ j_roster \subseteq JobPlayers
    /\ j_ref \in 0..Len(j_heap)
    /\ Len(j_heap) <= Cardinality(Handlers)
    /\ \A h \in Handlers :
           /\ j_req[h] \in {"start", "check", "set", "spawn", "started",
                            "already_running"}
           /\ j_wpc[h] \in {"none", "begin", "loop", "append", "read",
                            "write", "ended"}
           /\ j_wjob[h] \in 0..Len(j_heap)
           /\ j_left[h] \subseteq j_snap[h]

\* The worker threads that have been started and have not ended.
LiveWorkers == {w \in Handlers : j_wpc[w] \notin {"none", "ended"}}

\* The job dictionaries whose status is running.
RunningJobs == {i \in DOMAIN j_heap : j_heap[i].status = "running"}

\* C34: at most one worker of the team runs at any time and at most one job
\* dictionary of the team is running: a request that finds the job of the
\* team running starts no worker and puts no new dictionary in its place,
\* also when two requests are handled at once.
C34_OneJobPerTeam ==
    /\ Cardinality(LiveWorkers) <= 1
    /\ Cardinality(RunningJobs) <= 1

\* The players of the results of a job.
ResultPlayers(job) == {job.results[n].player : n \in DOMAIN job.results}

\* C35: in every state, done of every job is the number of its result
\* entries and at most its total, and a complete job has done = total and
\* exactly one result entry for each player its handler loaded.
C35_JobProgress ==
    \A i \in DOMAIN j_heap :
        LET job == j_heap[i] IN
        /\ job.done = Len(job.results)
        /\ job.done <= job.total
        /\ job.status = "complete" =>
               /\ job.done = job.total
               /\ ResultPlayers(job) = job.players
               /\ Len(job.results) = Cardinality(job.players)


(***************************************************************************)
(* Properties of load, save and _lock                                      *)
(***************************************************************************)

LockTypeOK ==
    /\ l_lock \in {0} \cup Callers
    /\ l_exists \in BOOLEAN
    /\ \A c \in Callers :
           /\ l_pc[c] \in {"call", "locked", "save", "saving", "returned"}
           /\ l_ret[c] \in {None, "file", "default"}
           /\ l_op[c] \in {"load", "save"}

\* Every call has returned, every load() with data, and _lock is free.
AllReturned ==
    /\ \A c \in Callers :
           /\ l_pc[c] = "returned"
           /\ l_op[c] = "load" => l_ret[c] # None
    /\ l_lock = 0
    /\ l_exists

\* C36: every load() returns the data, the default tournament it saved when
\* the file was not there, and _lock is free afterwards, so that the calls
\* of the other threads return too.
C36_LoadTerminates == <>[]AllReturned


(***************************************************************************)
(* Properties of the teams and my team                                     *)
(***************************************************************************)

\* my_team_id of a roster is None or the id of one of its teams.
MyTeamExists(data) ==
    data.my_team_id = None \/ data.my_team_id \in TeamIdsOf(data)

\* What the request that handler h finishes in this step did to the file,
\* when it is a deletion: of a team of its copy, the team and my_team_id
\* naming it are gone from the file; of an id its copy lacks, nothing is
\* written.
DeletionDone(h) ==
    (m_pc[h] = "loaded" /\ m_pc'[h] = "idle" /\ m_last'.op = "delete") =>
        IF m_last'.id \in TeamIdsOf(m_data[h])
        THEN /\ m_last'.saved
             /\ m_last'.id \notin TeamIdsOf(m_file')
             /\ m_file'.my_team_id # m_last'.id
             /\ m_data[h].my_team_id = m_last'.id =>
                    m_file'.my_team_id = None
        ELSE /\ ~m_last'.saved
             /\ m_file' = m_file

\* C37: whatever the handlers did, my_team_id of the file is None or the id
\* of a team of the file; a deletion of my team leaves my_team_id None, and
\* a deletion of an id that names no team writes nothing.
C37_MyTeamExists ==
    /\ [](MyTeamExists(m_file) /\ \A h \in Handlers : MyTeamExists(m_data[h]))
    /\ [][\A h \in Handlers : DeletionDone(h)]_vars

\* My team has just been deleted: the file names no team as mine, and
\* another team is left.
C37_Witness ==
    /\ m_last = [op |-> "delete", id |-> "t1", saved |-> TRUE]
    /\ m_file.my_team_id = None
    /\ TeamIdsOf(m_file) = {"t2"}
    /\ \E h \in Handlers : m_pc[h] = "loaded" /\ m_data[h].my_team_id = "t1"


(***************************************************************************)
(* Properties of get_ddragon_version                                       *)
(***************************************************************************)

\* The call of thread c ends in this step.
Returns(c) == d_pc[c] # "idle" /\ d_pc'[c] = "idle"

\* What a call that ends in this step did: it made no request exactly when
\* the entry it read held a version fetched less than TTL before; when its
\* request failed it returned the version of the cache, the built-in one if
\* there is none, and left the cache as it was.
CallDone(c) ==
    Returns(c) =>
        /\ d_ret'[c].request <=>
               ~(d_seen[c].version # None
                 /\ d_now[c] - d_seen[c].fetched_at < TTL)
        /\ ~d_ret'[c].request => d_ret'[c].value = d_cache.version
        /\ d_ret'[c].failed =>
               /\ d_cache' = d_cache
               /\ d_ret'[c].value =
                      (IF d_cache.version = None THEN DefaultVersion
                       ELSE d_cache.version)
        /\ d_ret'[c].value \in d_fetched' \cup {DefaultVersion}

====
